---- MODULE Spec2Model ----
(***************************************************************************)
(* A model of noproto: the byte cursors (src/src/write.rs, src/src/read.rs)*)
(* the built-in Message implementations (src/src/impls.rs), the entry      *)
(* points (src/src/lib.rs) and the code that #[derive(Message)] and        *)
(* #[derive(Oneof)] generate (src/noproto-derive/src/lib.rs).              *)
(*                                                                         *)
(* Conventions.  A Rust slice is a TLA+ sequence, so Rust index i is TLA+  *)
(* index i+1.  A byte is a number 0..255.  A u32/u64/i32/i64/u8/... value  *)
(* is a little-endian sequence of bits of the type's width (b[1] is bit 0),*)
(* because the arithmetic of the code is modulo 2^32 and 2^64.  A usize    *)
(* (a length or a position) is a natural number.                           *)
(* A Result is carried in the field st: "ok", "err" (WriteError or         *)
(* ReadError) or "panic".                                                  *)
(***************************************************************************)
EXTENDS Integers, Sequences, FiniteSets, TLC

VARIABLES
    w,      \* the ByteWriter: [buf, pos]
    ret,    \* what the last ByteWriter / write() call returned: "none", "ok", "err", "panic"
    hist,   \* the ByteWriter calls made so far, each with the cursor it started from
    wmsg,   \* the message handed to write(): [ty, val], ty = "none" before
    input,  \* the byte slice handed to read(): [kind, bytes, ...], kind = "none" before
    rd,     \* what read() returned: [ty, st, val], st = "none" before
    fop,    \* the last FieldReader call, name = "none" before
    lp,     \* a read_varuint32 call in progress: [run, tail, res, shift, st]
    overflow_checks  \* the build: TRUE when integer overflow panics (as in a debug
                     \* build), FALSE when it wraps

vars == <<w, ret, hist, wmsg, input, rd, fop, lp, overflow_checks>>

(***************************************************************************)
(* Fixed-width integers as bit sequences.                                  *)
(***************************************************************************)

\* The unsigned value n (0 <= n < 2^31) in `width` bits.
U(n, width) == [i \in 1..width |-> IF i <= 31 THEN (n \div (2 ^ (i - 1))) % 2 ELSE 0]

\* !b
Not(b) == [i \in DOMAIN b |-> 1 - b[i]]

\* The signed value n (-2^31 <= n < 2^31) in `width` bits, two's complement.
S(n, width) == IF n >= 0 THEN U(n, width) ELSE Not(U((-n) - 1, width))

\* b == 0
IsZero(b) == \A i \in DOMAIN b : b[i] = 0

\* b & 0x7F, as a byte
Low7(b) == b[1] + 2 * b[2] + 4 * b[3] + 8 * b[4] + 16 * b[5] + 32 * b[6] + 64 * b[7]

\* b >> k on an unsigned type
Shr(b, k) == [i \in DOMAIN b |-> IF i + k <= Len(b) THEN b[i + k] ELSE 0]

\* b >> k on a signed type (arithmetic)
Sar(b, k) == [i \in DOMAIN b |-> IF i + k <= Len(b) THEN b[i + k] ELSE b[Len(b)]]

\* b << k, the bits shifted out are lost
Shl(b, k) == [i \in DOMAIN b |-> IF i - k >= 1 THEN b[i - k] ELSE 0]

\* a ^ b
Xor(a, b) == [i \in DOMAIN a |-> (a[i] + b[i]) % 2]

\* a | b
Or(a, b) == [i \in DOMAIN a |-> IF a[i] = 1 \/ b[i] = 1 THEN 1 ELSE 0]

\* b as a wider unsigned type
ZeroExt(b, width) == [i \in 1..width |-> IF i <= Len(b) THEN b[i] ELSE 0]

\* b as a wider signed type
SignExt(b, width) == [i \in 1..width |-> IF i <= Len(b) THEN b[i] ELSE b[Len(b)]]

\* b as a narrower type (`as`), the high bits are lost
Trunc(b, width) == [i \in 1..width |-> b[i]]

RECURSIVE BitsValue(_, _)
\* The value of bits b[1..n], n <= 31.
BitsValue(b, n) == IF n = 0 THEN 0 ELSE b[n] * (2 ^ (n - 1)) + BitsValue(b, n - 1)

\* usize -> u32 try_into() is Ok: len < 2^32
TryIntoU32(len) == len \div 4 < 2 ^ 30

\* i32::MAX, 2^31 - 1
I32Max == (2 ^ 30 - 1) * 2 + 1

\* shift += 7 computed modulo 2^32 when shift + 7 > i32::MAX
WrappingAdd7(shift) == ((shift - I32Max) + 6) - I32Max - 1

\* b as usize: the value is kept.  A usize is held in 64 bits; on a target
\* of 32 bits the value is the same.
AsUsize(b) == ZeroExt(b, 64)

\* a <= b of two unsigned integers of one width
ULe(a, b) ==
    a = b \/ \E i \in DOMAIN a : a[i] = 0 /\ b[i] = 1 /\ \A j \in DOMAIN a : j > i => a[j] = b[j]

\* len <= n, len a usize and n the length of a slice
UsizeLe(len, n) == ULe(len, U(n, 64))

\* val.to_le_bytes()
to_le_bytes(b) ==
    [k \in 1..(Len(b) \div 8) |->
        LET o == 8 * (k - 1) IN
        b[o + 1] + 2 * b[o + 2] + 4 * b[o + 3] + 8 * b[o + 4]
        + 16 * b[o + 5] + 32 * b[o + 6] + 64 * b[o + 7] + 128 * b[o + 8]]

\* uN::from_le_bytes(bs)
from_le_bytes(bs) ==
    [i \in 1..(8 * Len(bs)) |-> (bs[(i - 1) \div 8 + 1] \div (2 ^ ((i - 1) % 8))) % 2]

(***************************************************************************)
(* ByteWriter (src/src/write.rs).  A cursor is [buf, pos, st]; st is the   *)
(* Result of the call that produced it.                                    *)
(***************************************************************************)

ByteWriter_new(buf) == [buf |-> buf, pos |-> 0, st |-> "ok"]

\* &self.buf[..self.pos]
bytes(c) == SubSeq(c.buf, 1, c.pos)

Panic(c) == [c EXCEPT !.st = "panic"]

Err(c) == [c EXCEPT !.st = "err"]

\* ByteWriter::write refusing a write that ends exactly at the end of the
\* buffer (<= for <)
ByteWriter_write_short(c, bs) ==
    IF c.pos > Len(c.buf) THEN Panic(c)
    ELSE IF Len(c.buf) - c.pos <= Len(bs) THEN Err(c)
    ELSE [buf |-> [i \in 1..Len(c.buf) |->
                      IF i > c.pos /\ i <= c.pos + Len(bs) THEN bs[i - c.pos] ELSE c.buf[i]],
          pos |-> c.pos + Len(bs),
          st  |-> "ok"]

\* ByteWriter::write writing the bytes that fit before it fails
ByteWriter_write_partial(c, bs) ==
    IF c.pos > Len(c.buf) THEN Panic(c)
    ELSE [buf |-> [i \in 1..Len(c.buf) |->
                      IF i > c.pos /\ i <= c.pos + Len(bs) THEN bs[i - c.pos] ELSE c.buf[i]],
          pos |-> IF c.pos + Len(bs) <= Len(c.buf) THEN c.pos + Len(bs) ELSE Len(c.buf),
          st  |-> IF c.pos + Len(bs) <= Len(c.buf) THEN "ok" ELSE "err"]

\* ByteWriter::write(bytes)
ByteWriter_write(c, bs) ==
    \* self.buf.len() - self.pos must not underflow
    IF c.pos > Len(c.buf) THEN Panic(c)
    ELSE IF Len(c.buf) - c.pos < Len(bs) THEN Err(c)
    \* self.buf[self.pos..][..bytes.len()] checks its bounds
    ELSE IF c.pos + Len(bs) > Len(c.buf) THEN Panic(c)
    ELSE [buf |-> [i \in 1..Len(c.buf) |->
                      IF i > c.pos /\ i <= c.pos + Len(bs) THEN bs[i - c.pos] ELSE c.buf[i]],
          pos |-> c.pos + Len(bs),
          st  |-> "ok"]

write_u8(c, val) == ByteWriter_write(c, to_le_bytes(val))

write_u16(c, val) == ByteWriter_write(c, to_le_bytes(val))

write_u32(c, val) == ByteWriter_write(c, to_le_bytes(val))

write_u64(c, val) == ByteWriter_write(c, to_le_bytes(val))

RECURSIVE write_varuint32(_, _)
\* write_varuint32 that never sets bit 7 (no `part |= 0x80`)
write_varuint32_noflag(c, val) ==
    LET Written(rest, c1) ==
            IF c1.st # "ok" THEN c1
            ELSE IF IsZero(rest) THEN c1
            ELSE write_varuint32(c1, rest)
        Round(rest) == Written(rest, write_u8(c, U(Low7(val), 8)))
    IN Round(Shr(val, 7))

\* ByteWriter::write_varuint32
write_varuint32(c, val) ==
    LET \* after self.write_u8(part as u8)?, c1 the cursor it left
        Written(rest, c1) ==
            IF c1.st # "ok" THEN c1
            ELSE IF IsZero(rest) THEN c1
            ELSE write_varuint32(c1, rest)
        Part(rest) == IF ~IsZero(rest) THEN Low7(val) + 128 ELSE Low7(val)
        Round(rest) == Written(rest, write_u8(c, U(Part(rest), 8)))
    IN Round(Shr(val, 7))

RECURSIVE write_varuint64(_, _)
write_varuint64(c, val) ==
    LET \* after self.write_u8(part as u8)?, c1 the cursor it left
        Written(rest, c1) ==
            IF c1.st # "ok" THEN c1
            ELSE IF IsZero(rest) THEN c1
            ELSE write_varuint64(c1, rest)
        Part(rest) == IF ~IsZero(rest) THEN Low7(val) + 128 ELSE Low7(val)
        Round(rest) == Written(rest, write_u8(c, U(Part(rest), 8)))
    IN Round(Shr(val, 7))

\* write_varint32 with a logical shift for the arithmetic val >> 31
write_varint32_logical(c, val) == write_varuint32(c, Xor(Shr(val, 31), Shl(val, 1)))

\* ByteWriter::write_varint32: zigzag, then varint
write_varint32(c, val) == write_varuint32(c, Xor(Sar(val, 31), Shl(val, 1)))

write_varint64(c, val) == write_varuint64(c, Xor(Sar(val, 63), Shl(val, 1)))

\* copy_within as a loop that copies byte by byte from the front: a byte of
\* the source that the loop has overwritten is read as overwritten
copy_within_forward(buf, src, src_end, dest) ==
    IF dest <= src THEN buf
    ELSE [i \in 1..Len(buf) |->
             IF i > dest /\ i <= dest + (src_end - src)
             THEN buf[src + 1 + ((i - dest - 1) % (dest - src))]
             ELSE buf[i]]

\* buf.copy_within(src..src_end, dest): a memmove (the source is read before
\* anything is written, so the ranges may overlap).
copy_within(buf, src, src_end, dest) ==
    [i \in 1..Len(buf) |->
        IF i > dest /\ i <= dest + (src_end - src) THEN buf[src + (i - dest)] ELSE buf[i]]

\* copy_from_slice into buf[start - 1..], one byte early
copy_from_slice_early(buf, start, header) ==
    [i \in 1..Len(buf) |->
        IF i >= start /\ i < start + Len(header) THEN header[i - start + 1] ELSE buf[i]]

\* buf[start..][..header.len()].copy_from_slice(header)
copy_from_slice(buf, start, header) ==
    [i \in 1..Len(buf) |->
        IF i > start /\ i <= start + Len(header) THEN header[i - start] ELSE buf[i]]

\* let header = header.bytes(), of a scratch ByteWriter over [0; 16]
EncodeLength(len) == write_varuint32(ByteWriter_new([i \in 1..16 |-> 0]), U(len, 32))

\* write_length_delimited(f), entered with self.pos = start; cf is the cursor
\* as f(self) left it (line 107).
write_length_delimited(start, cf) ==
    LET \* lines 116-126, header the encoded length
        Framed(header) ==
            IF cf.pos > Len(cf.buf) THEN Panic(cf)
            ELSE IF Len(cf.buf) - cf.pos < Len(header) THEN Err(cf)
            \* copy_within and the slice buf[start..][..h] check their bounds
            ELSE IF start + Len(header) + (cf.pos - start) > Len(cf.buf) THEN Panic(cf)
            ELSE [buf |-> copy_from_slice(
                              copy_within(cf.buf, start, cf.pos, start + Len(header)),
                              start, header),
                  pos |-> cf.pos + Len(header),
                  st  |-> "ok"]
        \* header.write_varuint32(len.try_into().unwrap())?
        Encoded(hw) == IF hw.st # "ok" THEN [cf EXCEPT !.st = hw.st] ELSE Framed(bytes(hw))
    IN IF cf.st # "ok" THEN cf
       \* let len = self.pos - start must not underflow
       ELSE IF cf.pos < start THEN Panic(cf)
       \* len.try_into().unwrap(): a len that is no u32 panics
       ELSE IF ~TryIntoU32(cf.pos - start) THEN Panic(cf)
       ELSE Encoded(EncodeLength(cf.pos - start))

(***************************************************************************)
(* The schema under test: what the derive macros are given.  A message is  *)
(* its fields in declaration order, a oneof its variants, an enumeration   *)
(* its variants with their discriminants.                                  *)
(***************************************************************************)

\* heapless::Vec<u32, ItemsCap> of Outer.items
ItemsCap == 2

\* heapless::Vec<u8, BytesCap> of Rec.data
BytesCap == 135

Fld(name, kind, tags, ty, cap, opt) ==
    [name |-> name, kind |-> kind, tags |-> tags, ty |-> ty, cap |-> cap, opt |-> opt]

\* #[derive(Message)] struct ...: the fields with their noproto attributes
\* (Field::new: kind, tags), in declaration order.
Messages ==
    [Inner |-> << Fld("a", "Single", <<1>>, "u32", 0, FALSE),
                  Fld("b", "Optional", <<2>>, "i32", 0, FALSE) >>,
     Outer |-> << Fld("x", "Single", <<3>>, "u32", 0, FALSE),
                  Fld("choice", "Oneof", <<1, 5>>, "Choice", 0, TRUE),
                  Fld("items", "Repeated", <<4>>, "u32", ItemsCap, FALSE),
                  Fld("inner", "Optional", <<2>>, "Inner", 0, FALSE) >>,
     Rec   |-> << Fld("data", "Single", <<2>>, "Bytes", 0, FALSE),
                  Fld("color", "Single", <<7>>, "Color", 0, FALSE),
                  Fld("flag", "Single", <<1>>, "bool", 0, FALSE),
                  Fld("wide", "Optional", <<16>>, "u64", 0, FALSE),
                  Fld("neg", "Optional", <<3>>, "i64", 0, FALSE),
                  Fld("small", "Single", <<4>>, "i8", 0, FALSE) >>,
     Deep  |-> << Fld("o", "Optional", <<2>>, "Inner", 0, FALSE),
                  Fld("s", "Single", <<1>>, "Outer", 0, FALSE),
                  Fld("pick", "Oneof", <<3, 4>>, "Pick", 0, FALSE) >>]

\* #[derive(Oneof)] enum ...: the variants (OneofVariant::new: tag) in
\* declaration order, each with its single payload type.
Oneofs ==
    [Choice |-> << [name |-> "A", tag |-> 1, ty |-> "u32"],
                   [name |-> "B", tag |-> 5, ty |-> "Inner"] >>,
     Pick   |-> << [name |-> "P", tag |-> 3, ty |-> "u32"],
                   [name |-> "Q", tag |-> 4, ty |-> "bool"] >>]

\* #[derive(Enumeration)] enum ...: the variants with their discriminants.
Enumerations ==
    [Color |-> << [name |-> "Red", value |-> 0], [name |-> "Blue", value |-> 7] >>]

MessageTypes == DOMAIN Messages

EnumTypes == DOMAIN Enumerations

ScalarTypes == {"bool", "u8", "u16", "u32", "u64", "i8", "i16", "i32", "i64"}

\* const WIRE_TYPE of each impl Message
WIRE_TYPE(ty) ==
    IF ty \in ScalarTypes \cup EnumTypes THEN "Varint" ELSE "LengthDelimited"

\* WireType as u32 (#[repr(u8)]: Varint = 0, LengthDelimited = 2)
WireTypeCode(wt) == IF wt = "Varint" THEN U(0, 32) ELSE U(2, 32)

\* field.tags.iter().copied().min().unwrap()
MinTag(f) == CHOOSE t \in {f.tags[j] : j \in DOMAIN f.tags} :
                \A j \in DOMAIN f.tags : t <= f.tags[j]

\* try_message without the sort: the fields in declaration order
sort_by_key_unsorted(fs) == fs

RECURSIVE sort_by_key(_)
\* fields.sort_by_key(min tag): a stable sort
sort_by_key(fs) ==
    LET \* last goes after the k fields of the sorted rest whose key is <= its own
        Place(rest, last, k) ==
            SubSeq(rest, 1, k) \o << last >> \o SubSeq(rest, k + 1, Len(rest))
        Sorted(rest, last) ==
            Place(rest, last,
                  Cardinality({i \in DOMAIN rest : MinTag(rest[i]) <= MinTag(last)}))
    IN IF fs = << >> THEN << >>
       ELSE Sorted(sort_by_key(SubSeq(fs, 1, Len(fs) - 1)), fs[Len(fs)])

\* `fields` of try_message after the sort
SortedFields(ty) == sort_by_key(Messages[ty])

(***************************************************************************)
(* Message::write_raw of the built-in types (src/src/impls.rs).            *)
(***************************************************************************)

bool_write_raw(self, c) == write_varuint32(c, U(IF self THEN 1 ELSE 0, 32))

u8_write_raw(self, c) == write_varuint32(c, ZeroExt(self, 32))

u16_write_raw(self, c) == write_varuint32(c, ZeroExt(self, 32))

u32_write_raw(self, c) == write_varuint32(c, self)

u64_write_raw(self, c) == write_varuint64(c, self)

i8_write_raw(self, c) == write_varint32(c, SignExt(self, 32))

i16_write_raw(self, c) == write_varint32(c, SignExt(self, 32))

i32_write_raw(self, c) == write_varint32(c, self)

i64_write_raw(self, c) == write_varint64(c, self)

\* impl Message for heapless::String<N>: w.write(self.as_bytes()); a String
\* is its UTF-8 bytes
String_write_raw(self, c) == ByteWriter_write(c, self)

\* impl Message for heapless::Vec<u8, N>
Bytes_write_raw(self, c) == ByteWriter_write(c, self)

\* The discriminant of variant `self` of enumeration ty
Discriminant(ty, self) ==
    Enumerations[ty][CHOOSE i \in DOMAIN Enumerations[ty] :
                        Enumerations[ty][i].name = self].value

\* try_enumeration, the generated write_raw: w.write_varuint32(*self as _)
Enumeration_write_raw(ty, self, c) == write_varuint32(c, U(Discriminant(ty, self), 32))

(***************************************************************************)
(* write_field, write_repeated, write_optional, write_oneof and the        *)
(* write_raw that the derive macros generate.                              *)
(***************************************************************************)

RECURSIVE Message_write_raw(_, _, _)
RECURSIVE write_field(_, _, _, _)
RECURSIVE write_repeated(_, _, _, _)
RECURSIVE derived_write_raw(_, _, _, _)
RECURSIVE Oneof_write_raw(_, _, _)

\* msg.write_raw(w), dispatched on the type of msg
Message_write_raw(ty, self, c) ==
    CASE ty = "bool"  -> bool_write_raw(self, c)
      [] ty = "u8"    -> u8_write_raw(self, c)
      [] ty = "u16"   -> u16_write_raw(self, c)
      [] ty = "u32"   -> u32_write_raw(self, c)
      [] ty = "u64"   -> u64_write_raw(self, c)
      [] ty = "i8"    -> i8_write_raw(self, c)
      [] ty = "i16"   -> i16_write_raw(self, c)
      [] ty = "i32"   -> i32_write_raw(self, c)
      [] ty = "i64"   -> i64_write_raw(self, c)
      [] ty = "String" -> String_write_raw(self, c)
      [] ty = "Bytes" -> Bytes_write_raw(self, c)
      [] ty \in EnumTypes -> Enumeration_write_raw(ty, self, c)
      [] ty \in MessageTypes -> derived_write_raw(ty, self, c, 1)

\* ByteWriter::write_field(tag, msg), tag a u32
write_field(c, tag, ty, msg) ==
    LET \* after self.write_varuint32(header)?, c1 the cursor it left
        Payload(c1) ==
            IF c1.st # "ok" THEN c1
            ELSE IF WIRE_TYPE(ty) = "LengthDelimited"
                 THEN write_length_delimited(c1.pos, Message_write_raw(ty, msg, c1))
                 ELSE Message_write_raw(ty, msg, c1)
    IN Payload(write_varuint32(c, Or(Shl(tag, 3), WireTypeCode(WIRE_TYPE(ty)))))

\* ByteWriter::write_repeated(tag, msg): the loop over msg.iter()
\* (heapless::Vec::iter never fails), msg the elements still to write
write_repeated(c, tag, ty, msg) ==
    LET Rest(c1) == IF c1.st # "ok" THEN c1 ELSE write_repeated(c1, tag, ty, Tail(msg))
    IN IF msg = << >> THEN c ELSE Rest(write_field(c, tag, ty, Head(msg)))

\* ByteWriter::write_optional(tag, msg): Option<M> is << >> or << m >>
write_optional(c, tag, ty, msg) ==
    IF msg # << >> THEN write_field(c, tag, ty, msg[1]) ELSE c

\* A value of a oneof enum is a record of one field, named as the active
\* variant and holding its payload: Choice::A(x) is [A |-> x].
Variant(name, payload) == [n \in {name} |-> payload]

\* The name of the active variant
Active(self) == CHOOSE n \in DOMAIN self : TRUE

\* The declaration of the variant called name
VariantOf(oty, name) ==
    Oneofs[oty][CHOOSE i \in DOMAIN Oneofs[oty] : Oneofs[oty][i].name = name]

\* try_oneof, the generated Oneof::write_raw: the arm of the active variant
Oneof_write_raw(oty, self, c) ==
    LET Arm(v) == write_field(c, U(v.tag, 32), v.ty, self[v.name])
    IN Arm(VariantOf(oty, Active(self)))

\* impl Oneof for Option<M>: write_raw
OptionOneof_write_raw(oty, self, c) ==
    IF self # << >> THEN Oneof_write_raw(oty, self[1], c) ELSE c

\* ByteWriter::write_oneof(msg); opt tells an Option<M> holder from a bare M
write_oneof(c, oty, opt, msg) ==
    IF opt THEN OptionOneof_write_raw(oty, msg, c) ELSE Oneof_write_raw(oty, msg, c)

\* try_message, the generated write_raw: one statement per field of the
\* sorted `fields`, from statement k, each ended by `?`
derived_write_raw(ty, self, c, k) ==
    LET Rest(c1) == IF c1.st # "ok" THEN c1 ELSE derived_write_raw(ty, self, c1, k + 1)
        Statement(f) ==
            CASE f.kind = "Single"   -> write_field(c, U(f.tags[1], 32), f.ty, self[f.name])
              [] f.kind = "Repeated" -> write_repeated(c, U(f.tags[1], 32), f.ty, self[f.name])
              [] f.kind = "Optional" -> write_optional(c, U(f.tags[1], 32), f.ty, self[f.name])
              [] f.kind = "Oneof"    -> write_oneof(c, f.ty, f.opt, self[f.name])
        From(fs) == IF k > Len(fs) THEN c ELSE Rest(Statement(fs[k]))
    IN From(SortedFields(ty))

\* noproto::write(msg, buf): Ok(n) is [st |-> "ok", n |-> n]; buf is the
\* caller's buffer afterwards
lib_write(ty, msg, buf) ==
    LET Result(c) == [st |-> c.st, n |-> c.pos, buf |-> c.buf]
    IN Result(Message_write_raw(ty, msg, ByteWriter_new(buf)))

(***************************************************************************)
(* ByteReader (src/src/read.rs).  The reader is its remaining bytes; a call*)
(* returns [st, val, data]: the Result, the value of Ok, and the reader    *)
(* afterwards.                                                             *)
(***************************************************************************)

ROk(val, data) == [st |-> "ok", val |-> val, data |-> data]

RErr(data) == [st |-> "err", val |-> << >>, data |-> data]

RPanic(data) == [st |-> "panic", val |-> << >>, data |-> data]

\* self.data.is_empty()
eof(data) == data = << >>

\* self.data.get(0..n) is Some
GetOk(data, n) == n <= Len(data)

\* ByteReader::read::<N>(): the N bytes; &self.data[N..] checks its bound
ByteReader_read(data, N) ==
    IF ~GetOk(data, N) THEN RErr(data)
    ELSE IF N > Len(data) THEN RPanic(data)
    ELSE ROk(SubSeq(data, 1, N), SubSeq(data, N + 1, Len(data)))

\* ByteReader::read_u8: u8::from_le_bytes(self.read()?)
read_u8(data) ==
    LET Byte(r) == IF r.st # "ok" THEN r ELSE ROk(r.val[1], r.data)
    IN Byte(ByteReader_read(data, 1))

\* ByteReader::read_u16: u16::from_le_bytes(self.read()?)
read_u16(data) ==
    LET Word(r) == IF r.st # "ok" THEN r ELSE ROk(from_le_bytes(r.val), r.data)
    IN Word(ByteReader_read(data, 2))

\* ByteReader::read_u32: u32::from_le_bytes(self.read()?)
read_u32(data) ==
    LET Word(r) == IF r.st # "ok" THEN r ELSE ROk(from_le_bytes(r.val), r.data)
    IN Word(ByteReader_read(data, 4))

\* ByteReader::read_u64: u64::from_le_bytes(self.read()?)
read_u64(data) ==
    LET Word(r) == IF r.st # "ok" THEN r ELSE ROk(from_le_bytes(r.val), r.data)
    IN Word(ByteReader_read(data, 8))

\* ByteReader::read_slice(len), len a usize: self.data.get(0..len) is Some
\* when len <= self.data.len(), and &self.data[len..] is in bounds then
read_slice(data, len) ==
    LET Taken(n) == ROk(SubSeq(data, 1, n), SubSeq(data, n + 1, Len(data)))
    IN IF ~UsizeLe(len, Len(data)) THEN RErr(data)
       ELSE Taken(BitsValue(len, 31))

read_to_end(data) == ROk(data, << >>)

RECURSIVE read_varuint_bytes_from(_, _)
\* read_varuint_bytes that leaves the terminator out of the slice it returns
read_varuint_bytes_from_short(data, i) ==
    IF i >= Len(data) THEN RErr(data)
    ELSE IF data[i + 1] < 128
         THEN ROk(SubSeq(data, 1, i), SubSeq(data, i + 2, Len(data)))
         ELSE read_varuint_bytes_from(data, i + 1)

\* ByteReader::read_varuint_bytes: the loop `for i in 0..`, from index i
read_varuint_bytes_from(data, i) ==
    IF i >= Len(data) THEN RErr(data)
    ELSE IF data[i + 1] < 128
         THEN ROk(SubSeq(data, 1, i + 1), SubSeq(data, i + 2, Len(data)))
         ELSE read_varuint_bytes_from(data, i + 1)

read_varuint_bytes(data) == read_varuint_bytes_from(data, 0)

\* (x as uN & 0x7F) << shift, in a type of `width` bits.  Where overflow
\* wraps, << takes its amount modulo the width; where it panics, shift is
\* never out of 0 .. width-1 here.
GroupAt(x, shift, width) == Shl(U(x % 128, width), shift % width)

RECURSIVE read_varuint32_loop(_, _, _)
\* ByteReader::read_varuint32: the loop, entered with res and shift (an i32)
read_varuint32_loop(data, res, shift) ==
    LET \* shift += 7
        Add7(r, res1) ==
            IF shift <= I32Max - 7 THEN read_varuint32_loop(r.data, res1, shift + 7)
            ELSE IF overflow_checks THEN RPanic(r.data)
            ELSE read_varuint32_loop(r.data, res1, WrappingAdd7(shift))
        \* after the `if shift < 32`, r.val the byte read and r.data the reader
        Step(r, res1) == IF r.val < 128 THEN ROk(res1, r.data) ELSE Add7(r, res1)
        \* after let x = self.read_u8()?
        Got(r) ==
            IF r.st # "ok" THEN r
            ELSE Step(r, IF shift < 32 THEN Or(res, GroupAt(r.val, shift, 32)) ELSE res)
    IN Got(read_u8(data))

read_varuint32(data) == read_varuint32_loop(data, U(0, 32), 0)

RECURSIVE read_varuint64_loop(_, _, _)
\* ByteReader::read_varuint64: the loop, entered with res and shift (an i32)
read_varuint64_loop(data, res, shift) ==
    LET \* shift += 7
        Add7(r, res1) ==
            IF shift <= I32Max - 7 THEN read_varuint64_loop(r.data, res1, shift + 7)
            ELSE IF overflow_checks THEN RPanic(r.data)
            ELSE read_varuint64_loop(r.data, res1, WrappingAdd7(shift))
        \* after the `if shift < 64`, r.val the byte read and r.data the reader
        Step(r, res1) == IF r.val < 128 THEN ROk(res1, r.data) ELSE Add7(r, res1)
        \* after let x = self.read_u8()?
        Got(r) ==
            IF r.st # "ok" THEN r
            ELSE Step(r, IF shift < 64 THEN Or(res, GroupAt(r.val, shift, 64)) ELSE res)
    IN Got(read_u8(data))

read_varuint64(data) == read_varuint64_loop(data, U(0, 64), 0)

\* The zigzag decoding without the sign: (u >> 1) only
ZigzagDecode_unsigned(u) == Shr(u, 1)

\* ((u >> 1) as iN) ^ -((u & 1) as iN): -(0) is 0 and -(1) is all ones
ZigzagDecode(u) == Xor(Shr(u, 1), [i \in DOMAIN u |-> u[1]])

read_varint32(data) ==
    LET Decoded(r) == IF r.st # "ok" THEN r ELSE ROk(ZigzagDecode(r.val), r.data)
    IN Decoded(read_varuint32(data))

read_varint64(data) ==
    LET Decoded(r) == IF r.st # "ok" THEN r ELSE ROk(ZigzagDecode(r.val), r.data)
    IN Decoded(read_varuint64(data))

\* ByteReader::read_varslice
read_varslice(data) ==
    LET Slice(r) == IF r.st # "ok" THEN r ELSE read_slice(r.data, AsUsize(r.val))
    IN Slice(read_varuint32(data))

\* Some(Ok(FieldReader { tag, data, wire_type })), p the payload read
SomeField(tag, wire_type, p) ==
    IF p.st # "ok" THEN [st |-> p.st, rest |-> p.data]
    ELSE [st |-> "ok", rest |-> p.data,
          fr |-> [tag |-> tag, data |-> p.val, wire_type |-> wire_type]]

\* FieldIter::next from `let tag = header >> 3` on, hr what
\* self.r.read_varuint32() returned for the header
FieldIter_header(hr) ==
    LET \* WireType::LengthDelimited: after self.r.read_varuint32() of len
        Delimited(tag, lr) ==
            IF lr.st # "ok" THEN [st |-> lr.st, rest |-> lr.data]
            ELSE SomeField(tag, "LengthDelimited", read_slice(lr.data, AsUsize(lr.val)))
    IN IF hr.st # "ok" THEN [st |-> hr.st, rest |-> hr.data]
       ELSE CASE Trunc(hr.val, 3) = U(0, 3) ->
                   SomeField(Shr(hr.val, 3), "Varint", read_varuint_bytes(hr.data))
              [] Trunc(hr.val, 3) = U(2, 3) ->
                   Delimited(Shr(hr.val, 3), read_varuint32(hr.data))
              [] OTHER -> [st |-> "err", rest |-> hr.data]

\* FieldIter::next.  st is "none" (None), "err" (Some(Err)), "ok"
\* (Some(Ok(fr))), fr the FieldReader [tag, data, wire_type], or "panic";
\* rest is the reader afterwards.
FieldIter_next(data) ==
    IF eof(data) THEN [st |-> "none", rest |-> data]
    ELSE FieldIter_header(read_varuint32(data))

(***************************************************************************)
(* Message::read_raw of the built-in types (src/src/impls.rs).  A call     *)
(* returns [st, val]: the Result and self afterwards.                      *)
(***************************************************************************)

MOk(val) == [st |-> "ok", val |-> val]

MFail(st, val) == [st |-> st, val |-> val]

bool_read_raw(self, data) ==
    LET Match(r) ==
            IF r.st # "ok" THEN MFail(r.st, self)
            ELSE IF r.val = U(0, 32) THEN MOk(FALSE)
            ELSE IF r.val = U(1, 32) THEN MOk(TRUE)
            ELSE MFail("err", self)
    IN Match(read_varuint32(data))

\* uM -> uN try_into: Ok when the value is below 2^width
FitsUnsigned(b, width) == \A i \in DOMAIN b : i > width => b[i] = 0

\* iM -> iN try_into: Ok when the value is in -2^(width-1) .. 2^(width-1)-1
FitsSigned(b, width) == \A i \in DOMAIN b : i > width => b[i] = b[width]

\* `as uN` for the try_into: the high bits are dropped without a check
IntoUnsigned_lossy(self, r, width) ==
    IF r.st # "ok" THEN MFail(r.st, self)
    ELSE MOk(Trunc(r.val, width))

\* *self = r.read_varuint..()?.try_into().map_err(|_| ReadError)?
IntoUnsigned(self, r, width) ==
    IF r.st # "ok" THEN MFail(r.st, self)
    ELSE IF ~FitsUnsigned(r.val, width) THEN MFail("err", self)
    ELSE MOk(Trunc(r.val, width))

\* *self = r.read_varint..()?.try_into().map_err(|_| ReadError)?
IntoSigned(self, r, width) ==
    IF r.st # "ok" THEN MFail(r.st, self)
    ELSE IF ~FitsSigned(r.val, width) THEN MFail("err", self)
    ELSE MOk(Trunc(r.val, width))

u8_read_raw(self, data) == IntoUnsigned(self, read_varuint32(data), 8)

u16_read_raw(self, data) == IntoUnsigned(self, read_varuint32(data), 16)

u32_read_raw(self, data) == IntoUnsigned(self, read_varuint32(data), 32)

u64_read_raw(self, data) == IntoUnsigned(self, read_varuint64(data), 64)

i8_read_raw(self, data) == IntoSigned(self, read_varint32(data), 8)

i16_read_raw(self, data) == IntoSigned(self, read_varint32(data), 16)

i32_read_raw(self, data) == IntoSigned(self, read_varint32(data), 32)

i64_read_raw(self, data) == IntoSigned(self, read_varint64(data), 64)

\* heapless::String<StringCap> of the strings that are read
StringCap == 4

RECURSIVE from_utf8_ok(_)
\* core::str::from_utf8(bs) is Ok: bs is a sequence of well-formed UTF-8
\* scalar values (no overlong form, no surrogate, nothing above U+10FFFF)
from_utf8_ok(bs) ==
    LET In(i, lo, hi) == i <= Len(bs) /\ bs[i] >= lo /\ bs[i] <= hi
        Cont(i) == In(i, 128, 191)
        Rest(k) == from_utf8_ok(SubSeq(bs, k + 1, Len(bs)))
    IN IF bs = << >> THEN TRUE
       ELSE IF bs[1] < 128 THEN Rest(1)
       ELSE IF In(1, 194, 223) THEN Cont(2) /\ Rest(2)
       ELSE IF bs[1] = 224 THEN In(2, 160, 191) /\ Cont(3) /\ Rest(3)
       ELSE IF In(1, 225, 236) \/ In(1, 238, 239) THEN Cont(2) /\ Cont(3) /\ Rest(3)
       ELSE IF bs[1] = 237 THEN In(2, 128, 159) /\ Cont(3) /\ Rest(3)
       ELSE IF bs[1] = 240 THEN In(2, 144, 191) /\ Cont(3) /\ Cont(4) /\ Rest(4)
       ELSE IF In(1, 241, 243) THEN Cont(2) /\ Cont(3) /\ Cont(4) /\ Rest(4)
       ELSE IF bs[1] = 244 THEN In(2, 128, 143) /\ Cont(3) /\ Cont(4) /\ Rest(4)
       ELSE FALSE

\* impl Message for heapless::String<N>: from_utf8 of the rest of the
\* reader, then clear, then push_str, which fails and changes nothing when
\* the string is longer than N
String_read_raw(self, data) ==
    LET Push(r) ==
            IF r.st # "ok" THEN MFail(r.st, self)
            ELSE IF ~from_utf8_ok(r.val) THEN MFail("err", self)
            ELSE IF Len(r.val) > StringCap THEN MFail("err", << >>)
            ELSE MOk(r.val)
    IN Push(read_to_end(data))

\* impl Message for heapless::Vec<u8, N>: clear, then extend_from_slice,
\* which fails and changes nothing when the slice is longer than N
Bytes_read_raw(self, data) ==
    LET Extend(r) ==
            IF r.st # "ok" THEN MFail(r.st, self)
            ELSE IF Len(r.val) > BytesCap THEN MFail("err", << >>)
            ELSE MOk(r.val)
    IN Extend(read_to_end(data))

\* try_enumeration, the generated read_raw: one arm per discriminant, the
\* first that matches
Enumeration_read_raw(ty, self, data) ==
    LET Arm(arms) ==
            IF arms = {} THEN MFail("err", self)
            ELSE MOk(Enumerations[ty][CHOOSE i \in arms : \A j \in arms : i <= j].name)
        Match(r) ==
            IF r.st # "ok" THEN MFail(r.st, self)
            ELSE Arm({i \in DOMAIN Enumerations[ty] : U(Enumerations[ty][i].value, 32) = r.val})
    IN Match(read_varuint32(data))

(***************************************************************************)
(* Default::default() of each type: the values read() and the FieldReader  *)
(* start from.                                                             *)
(***************************************************************************)

\* The field of message type ty named n
FieldNamed(ty, n) ==
    Messages[ty][CHOOSE i \in DOMAIN Messages[ty] : Messages[ty][i].name = n]

RECURSIVE Default(_)
Default(ty) ==
    LET \* the default of the holder of field f
        Holder(f) ==
            CASE f.kind = "Single"   -> Default(f.ty)
              [] f.kind = "Repeated" -> << >>
              [] f.kind = "Optional" -> << >>
              [] f.kind = "Oneof"    ->
                   IF f.opt THEN << >>
                   ELSE Variant(Oneofs[f.ty][1].name, Default(Oneofs[f.ty][1].ty))
    IN
    CASE ty = "bool"  -> FALSE
      [] ty = "u8"    -> U(0, 8)
      [] ty = "u16"   -> U(0, 16)
      [] ty = "u32"   -> U(0, 32)
      [] ty = "u64"   -> U(0, 64)
      [] ty = "i8"    -> U(0, 8)
      [] ty = "i16"   -> U(0, 16)
      [] ty = "i32"   -> U(0, 32)
      [] ty = "i64"   -> U(0, 64)
      [] ty = "String" -> << >>
      [] ty = "Bytes" -> << >>
      [] ty \in EnumTypes -> Enumerations[ty][1].name
      [] ty \in MessageTypes ->
           [n \in {Messages[ty][i].name : i \in DOMAIN Messages[ty]} |->
               Holder(FieldNamed(ty, n))]

(***************************************************************************)
(* FieldReader and the read_raw that the derive macros generate.  A        *)
(* FieldReader call returns [st, val, calls]: the Result, the target       *)
(* afterwards, and the read_raw / append / set calls it made on the way.   *)
(***************************************************************************)

FOk(val, calls) == [st |-> "ok", val |-> val, calls |-> calls]

FFail(st, val, calls) == [st |-> st, val |-> val, calls |-> calls]

RECURSIVE Message_read_raw(_, _, _)
RECURSIVE FieldReader_read(_, _, _)
RECURSIVE read_repeated(_, _, _, _)
RECURSIVE read_optional(_, _, _)
RECURSIVE read_oneof_variant(_, _)
RECURSIVE Oneof_read_raw(_, _, _)
RECURSIVE Oneof_read_raw_option(_, _, _)
RECURSIVE derived_read_raw(_, _, _)

\* msg.read_raw(r), dispatched on the type of msg
Message_read_raw(ty, self, data) ==
    CASE ty = "bool"  -> bool_read_raw(self, data)
      [] ty = "u8"    -> u8_read_raw(self, data)
      [] ty = "u16"   -> u16_read_raw(self, data)
      [] ty = "u32"   -> u32_read_raw(self, data)
      [] ty = "u64"   -> u64_read_raw(self, data)
      [] ty = "i8"    -> i8_read_raw(self, data)
      [] ty = "i16"   -> i16_read_raw(self, data)
      [] ty = "i32"   -> i32_read_raw(self, data)
      [] ty = "i64"   -> i64_read_raw(self, data)
      [] ty = "String" -> String_read_raw(self, data)
      [] ty = "Bytes" -> Bytes_read_raw(self, data)
      [] ty \in EnumTypes -> Enumeration_read_raw(ty, self, data)
      [] ty \in MessageTypes -> derived_read_raw(ty, self, data)

\* FieldReader::read without the check of the wire type
FieldReader_read_unchecked(fr, ty, msg) ==
    LET Raw(r) == FFail(r.st, r.val, << "read_raw" >>)
    IN Raw(Message_read_raw(ty, msg, fr.data))

\* FieldReader::read(msg)
FieldReader_read(fr, ty, msg) ==
    LET Raw(r) == FFail(r.st, r.val, << "read_raw" >>)
    IN IF fr.wire_type # WIRE_TYPE(ty) THEN FFail("err", msg, << >>)
       ELSE Raw(Message_read_raw(ty, msg, fr.data))

\* append on a Vec that grows without bound
append_unbounded(msg, m, cap) == MOk(Append(msg, m))

\* heapless::Vec<M, N>::append: push fails on a full vector
append(msg, m, cap) ==
    IF Len(msg) >= cap THEN MFail("err", msg) ELSE MOk(Append(msg, m))

\* Option<M>::set
set(msg, m) == MOk(<< m >>)

\* FieldReader::read_repeated(msg), msg a heapless::Vec<ty, cap>
read_repeated(fr, ty, cap, msg) ==
    LET Appended(r, a) == FFail(a.st, a.val, r.calls \o << "append" >>)
        \* after self.read(&mut m)
        Got(r) ==
            IF r.st # "ok" THEN FFail(r.st, msg, r.calls)
            ELSE Appended(r, append(msg, r.val, cap))
    IN IF fr.wire_type # WIRE_TYPE(ty) THEN FFail("err", msg, << >>)
       ELSE Got(FieldReader_read(fr, ty, Default(ty)))

\* read_optional that reads into the value the holder has, when it has one
read_optional_merge(fr, ty, msg) ==
    LET Stored(r, a) == FFail(a.st, a.val, r.calls \o << "set" >>)
        Got(r) ==
            IF r.st # "ok" THEN FFail(r.st, msg, r.calls)
            ELSE Stored(r, set(msg, r.val))
    IN IF fr.wire_type # WIRE_TYPE(ty) THEN FFail("err", msg, << >>)
       ELSE Got(FieldReader_read(fr, ty, IF msg # << >> THEN msg[1] ELSE Default(ty)))

\* FieldReader::read_optional(msg), msg an Option<ty>
read_optional(fr, ty, msg) ==
    LET Stored(r, a) == FFail(a.st, a.val, r.calls \o << "set" >>)
        \* after self.read(&mut m)
        Got(r) ==
            IF r.st # "ok" THEN FFail(r.st, msg, r.calls)
            ELSE Stored(r, set(msg, r.val))
    IN IF fr.wire_type # WIRE_TYPE(ty) THEN FFail("err", msg, << >>)
       ELSE Got(FieldReader_read(fr, ty, Default(ty)))

\* FieldReader::read_oneof_variant::<ty>(): val is the M of Ok(M)
read_oneof_variant(fr, ty) ==
    LET Raw(r) == FFail(r.st, r.val, << "read_raw" >>)
    IN IF fr.wire_type # WIRE_TYPE(ty) THEN FFail("err", << >>, << >>)
       ELSE Raw(Message_read_raw(ty, Default(ty), fr.data))

\* The first of the arms, a set of indices; 0 for the arm `_`
FirstArm(arms) ==
    IF arms = {} THEN 0 ELSE CHOOSE i \in arms : \A j \in arms : i <= j

\* The arm `tag => ...` of a generated match r.tag(): the first variant with
\* that tag, 0 for the arm `_`
OneofArm(oty, tag) ==
    FirstArm({i \in DOMAIN Oneofs[oty] : U(Oneofs[oty][i].tag, 32) = tag})

\* try_oneof, the generated Oneof::read_raw
Oneof_read_raw(oty, self, fr) ==
    LET \* *self = Ident::Variant(r.read_oneof_variant()?)
        Assigned(v, r) ==
            IF r.st # "ok" THEN FFail(r.st, self, r.calls)
            ELSE FOk(Variant(v.name, r.val), r.calls)
        Arm(k) ==
            IF k = 0 THEN FFail("err", self, << >>)
            ELSE Assigned(Oneofs[oty][k], read_oneof_variant(fr, Oneofs[oty][k].ty))
    IN Arm(OneofArm(oty, fr.tag))

\* read_raw_option that keeps a variant already read
Oneof_read_raw_option_first(oty, this, fr) ==
    LET Assigned(v, r) ==
            IF r.st # "ok" THEN FFail(r.st, this, r.calls)
            ELSE FOk(IF this # << >> THEN this ELSE << Variant(v.name, r.val) >>, r.calls)
        Arm(k) ==
            IF k = 0 THEN FFail("err", this, << >>)
            ELSE Assigned(Oneofs[oty][k], read_oneof_variant(fr, Oneofs[oty][k].ty))
    IN Arm(OneofArm(oty, fr.tag))

\* try_oneof, the generated Oneof::read_raw_option
Oneof_read_raw_option(oty, this, fr) ==
    LET \* *this = Some(Ident::Variant(r.read_oneof_variant()?))
        Assigned(v, r) ==
            IF r.st # "ok" THEN FFail(r.st, this, r.calls)
            ELSE FOk(<< Variant(v.name, r.val) >>, r.calls)
        Arm(k) ==
            IF k = 0 THEN FFail("err", this, << >>)
            ELSE Assigned(Oneofs[oty][k], read_oneof_variant(fr, Oneofs[oty][k].ty))
    IN Arm(OneofArm(oty, fr.tag))

\* impl Oneof for Option<M>: read_raw
OptionOneof_read_raw(oty, self, fr) == Oneof_read_raw_option(oty, self, fr)

\* FieldReader::read_oneof(msg); opt tells an Option<M> holder from a bare M
read_oneof(fr, oty, opt, msg) ==
    IF opt THEN OptionOneof_read_raw(oty, msg, fr) ELSE Oneof_read_raw(oty, msg, fr)

\* A match r.tag() without the arm `_ => {}`: an unknown tag runs the first arm
FieldArm_first(ty, tag) ==
    LET Among(fs) ==
            FirstArm({i \in DOMAIN fs :
                         \/ \E j \in DOMAIN fs[i].tags : U(fs[i].tags[j], 32) = tag
                         \/ i = 1})
    IN Among(SortedFields(ty))

\* The arm of the generated `match r.tag()` of message ty: the first field
\* of the sorted `fields` one of whose tags is tag, 0 for the arm `_`
FieldArm(ty, tag) ==
    LET Among(fs) ==
            FirstArm({i \in DOMAIN fs :
                         \E j \in DOMAIN fs[i].tags : U(fs[i].tags[j], 32) = tag})
    IN Among(SortedFields(ty))

\* The body of an arm: the read path of field f, into its holder
ReadArm(f, fr, holder) ==
    CASE f.kind = "Single"   -> FieldReader_read(fr, f.ty, holder)
      [] f.kind = "Repeated" -> read_repeated(fr, f.ty, f.cap, holder)
      [] f.kind = "Optional" -> read_optional(fr, f.ty, holder)
      [] f.kind = "Oneof"    -> read_oneof(fr, f.ty, f.opt, holder)

\* try_message, the generated read_raw: for r in r.read_fields() { ... }
derived_read_raw(ty, self, data) ==
    LET \* after the arm of field f has run, with result r
        Done(it, f, r) ==
            IF r.st # "ok" THEN MFail(r.st, [self EXCEPT ![f.name] = r.val])
            ELSE derived_read_raw(ty, [self EXCEPT ![f.name] = r.val], it.rest)
        Run(it, f) == Done(it, f, ReadArm(f, it.fr, self[f.name]))
        \* match r.tag()
        Match(it, k) ==
            IF k = 0 THEN derived_read_raw(ty, self, it.rest)
            ELSE Run(it, SortedFields(ty)[k])
        \* one iteration, it the item of the iterator
        Item(it) ==
            IF it.st = "none" THEN MOk(self)
            ELSE IF it.st # "ok" THEN MFail(it.st, self)
            ELSE Match(it, FieldArm(ty, it.fr.tag))
    IN Item(FieldIter_next(data))

\* noproto::read::<ty>(buf): Ok(msg) is [st |-> "ok", val |-> msg]
lib_read(ty, buf) ==
    LET Result(r) == IF r.st # "ok" THEN MFail(r.st, << >>) ELSE MOk(r.val)
    IN Result(Message_read_raw(ty, Default(ty), buf))

(***************************************************************************)
(* The values the model writes and the bytes it reads.                     *)
(***************************************************************************)

\* The longest slice written as one Bytes value
MaxData == 128

\* The buffers handed to write() are 0 .. MaxBuf bytes long
MaxBuf == 40

\* The longest raw input handed to read()
MaxRaw == 3

\* A caller's buffer of n bytes, not yet written
NewBuf(n) == [i \in 1..n |-> 170]

\* n bytes of data
Data(n) == [i \in 1..n |-> (7 * i) % 256]

InnerOf(a, b) == [a |-> a, b |-> b]

InnerValues ==
    {InnerOf(a, b) : a \in {U(0, 32), U(150, 32)}, b \in {<< >>, << S(-1, 32) >>}}

ChoiceValues ==
    {[A |-> U(150, 32)], [B |-> InnerOf(U(150, 32), << S(-1, 32) >>)]}

OuterValues ==
    {[x |-> x, choice |-> c, items |-> it, inner |-> inn] :
        x   \in {U(0, 32), U(300, 32)},
        c   \in {<< >>} \cup {<< v >> : v \in ChoiceValues},
        it  \in {<< >>, << U(1, 32), U(300, 32) >>},
        inn \in {<< >>, << InnerOf(U(0, 32), << >>) >>}}

RecValues ==
    {[data |-> d, color |-> s.color, flag |-> s.flag, wide |-> s.wide, neg |-> s.neg,
      small |-> s.small] :
        d \in {<< >>, << 65, 66 >>},
        s \in {[color |-> "Red", flag |-> FALSE, wide |-> << >>, neg |-> << >>,
                small |-> S(5, 8)],
               [color |-> "Blue", flag |-> TRUE, wide |-> << Not(U(0, 64)) >>,
                neg |-> << S(-2, 64) >>, small |-> S(-128, 8)]}}

DeepValues ==
    {[o |-> o, s |-> s, pick |-> p] :
        o \in {<< >>, << InnerOf(U(150, 32), << S(-1, 32) >>) >>},
        s \in {v \in OuterValues : v.items = << >> /\ v.x = U(300, 32)},
        p \in {[Q |-> TRUE]}}
    \cup
    {[o |-> << >>, s |-> s, pick |-> [P |-> U(0, 32)]] :
        s \in {v \in OuterValues : v.items # << >> /\ v.inner # << >> /\ v.choice # << >>}}

\* The values of message type ty that write() is given
Values(ty) ==
    CASE ty = "Inner" -> InnerValues
      [] ty = "Outer" -> OuterValues
      [] ty = "Rec"   -> RecValues
      [] ty = "Deep"  -> DeepValues

\* Well-formed fields whose tag (9 or 100) no message of the schema has: a
\* one-byte, a two-byte and a ten-byte varint, an empty and a non-empty
\* length-delimited payload, and a two-byte header
UnknownFields ==
    { << 72, 1 >>, << 72, 150, 1 >>, << 74, 0 >>, << 74, 2, 8, 128 >>, << 160, 6, 5 >>,
      << 72, 255, 255, 255, 255, 255, 255, 255, 255, 255, 1 >> }

\* Headers whose low 3 bits are 1, 3, 4, 5, 6 or 7, under a tag the schema
\* knows (1) and one it does not (9)
BadWireTypes == { << 9 >>, << 11 >>, << 12, 0 >>, << 77 >>, << 14 >>, << 79, 1 >> }

\* A truncated header, and truncated payloads: no payload at all, an
\* unterminated varint, no length, an unterminated length, and a length
\* greater than what is left
Truncated ==
    { << 136 >>, << 8 >>, << 8, 128 >>, << 10 >>, << 10, 128 >>, << 10, 5, 1 >>,
      << 72, 255 >>, << 74, 3, 0, 0 >> }

\* The bytes raw inputs are made of: headers of tags 1 and 2, a
\* continuation byte, small lengths and values
RawBytes == {0, 2, 8, 10, 18, 128}

RECURSIVE SeqsUpTo(_, _)
\* The sequences over alphabet of length 0 .. n
SeqsUpTo(alphabet, n) ==
    IF n = 0 THEN {<< >>}
    ELSE LET Longer(shorter) ==
                 shorter \cup {Append(q, b) : q \in {t \in shorter : Len(t) = n - 1},
                                              b \in alphabet}
         IN Longer(SeqsUpTo(alphabet, n - 1))

RECURSIVE FieldItems(_)
\* r.read_fields() collected: the items of FieldIter up to the first None or
\* failure
FieldItems(data) ==
    LET Item(it) ==
            IF it.st = "none" THEN << >>
            ELSE IF it.st # "ok" THEN << it >>
            ELSE << it >> \o FieldItems(it.rest)
    IN Item(FieldIter_next(data))

\* The offsets of data at which a field starts or the data ends
Boundaries(data) ==
    LET Ends(items) ==
            {Len(data) - Len(items[i].rest) : i \in {j \in DOMAIN items : items[j].st = "ok"}}
    IN {0} \cup Ends(FieldItems(data))

\* data with x inserted at offset k
Insert(data, x, k) == SubSeq(data, 1, k) \o x \o SubSeq(data, k + 1, Len(data))

(***************************************************************************)
(* Spec: write() of a message into a buffer, the bytes on their way to a   *)
(* reader, and read().                                                     *)
(***************************************************************************)

NoInput == [kind |-> "none", bytes |-> << >>]

Init ==
    /\ w = [buf |-> << >>, pos |-> 0]
    /\ ret = "none"
    /\ hist = << >>
    /\ wmsg = [ty |-> "none"]
    /\ input = NoInput
    /\ rd = [st |-> "none"]
    /\ fop = [name |-> "none"]
    /\ lp = [st |-> "none"]
    /\ overflow_checks \in BOOLEAN

\* Nothing written or received yet
Idle == wmsg.ty = "none" /\ input.kind = "none"

\* The written bytes are on their way and not yet read
Sent == input.kind = "output" /\ rd.st = "none"

\* noproto::write(&val, &mut buf), buf of n bytes
Write(ty, val, n) ==
    /\ Idle
    /\ LET Returned(r) == w' = [buf |-> r.buf, pos |-> r.n] /\ ret' = r.st
       IN Returned(lib_write(ty, val, NewBuf(n)))
    /\ wmsg' = [ty |-> ty, val |-> val]
    /\ UNCHANGED <<hist, input, rd, fop, lp, overflow_checks>>

\* The caller sends the bytes written into its largest buffer
Send ==
    /\ ret = "ok" /\ input.kind = "none" /\ Len(w.buf) = MaxBuf
    /\ input' = [kind |-> "output", bytes |-> SubSeq(w.buf, 1, w.pos)]
    /\ UNCHANGED <<w, ret, hist, wmsg, rd, fop, lp, overflow_checks>>

\* A newer peer adds a field this schema does not know, between two fields
\* or at an end
InsertUnknown(x, k) ==
    /\ Sent
    /\ input' = [kind |-> "unknown", bytes |-> Insert(input.bytes, x, k),
                 base |-> input.bytes, at |-> k, field |-> x]
    /\ UNCHANGED <<w, ret, hist, wmsg, rd, fop, lp, overflow_checks>>

\* A field with a reserved wire type turns up between two fields or at an end
InsertBadWireType(x, k) ==
    /\ Sent
    /\ input' = [kind |-> "malformed", bytes |-> Insert(input.bytes, x, k),
                 base |-> input.bytes, at |-> k, field |-> x]
    /\ UNCHANGED <<w, ret, hist, wmsg, rd, fop, lp, overflow_checks>>

\* The bytes end inside a field
AppendTruncated(x) ==
    /\ Sent
    /\ input' = [kind |-> "malformed", bytes |-> input.bytes \o x, base |-> input.bytes,
                 at |-> Len(input.bytes), field |-> x]
    /\ UNCHANGED <<w, ret, hist, wmsg, rd, fop, lp, overflow_checks>>

\* The encoding of a second value of the same type follows the first
Splice(val2) ==
    /\ Sent
    /\ LET Spliced(r) ==
               /\ r.st = "ok"
               /\ input' = [kind |-> "spliced",
                            bytes |-> input.bytes \o SubSeq(r.buf, 1, r.n),
                            base |-> input.bytes, second |-> val2]
       IN Spliced(lib_write(wmsg.ty, val2, NewBuf(MaxBuf)))
    /\ UNCHANGED <<w, ret, hist, wmsg, rd, fop, lp, overflow_checks>>

\* Arbitrary bytes arrive
Receive(raw) ==
    /\ Idle
    /\ input' = [kind |-> "raw", bytes |-> raw]
    /\ UNCHANGED <<w, ret, hist, wmsg, rd, fop, lp, overflow_checks>>

\* noproto::read::<ty>(&input)
Read(ty) ==
    /\ input.kind # "none" /\ rd.st = "none"
    /\ input.kind # "raw" => ty = wmsg.ty
    /\ LET Returned(r) == rd' = [ty |-> ty, st |-> r.st, val |-> r.val]
       IN Returned(lib_read(ty, input.bytes))
    /\ UNCHANGED <<w, ret, hist, wmsg, input, fop, lp, overflow_checks>>

Next ==
    \/ Idle /\ \E ty \in MessageTypes : \E val \in Values(ty) : \E n \in 0..MaxBuf :
                  Write(ty, val, n)
    \/ Send
    \/ Sent /\ \E k \in Boundaries(input.bytes) : \E x \in UnknownFields : InsertUnknown(x, k)
    \/ Sent /\ \E k \in Boundaries(input.bytes) : \E x \in BadWireTypes : InsertBadWireType(x, k)
    \/ \E x \in Truncated : AppendTruncated(x)
    \/ Sent /\ \E val2 \in Values(wmsg.ty) : Splice(val2)
    \/ Idle /\ \E raw \in SeqsUpTo(RawBytes, MaxRaw) : Receive(raw)
    \/ \E ty \in MessageTypes : Read(ty)

Spec == Init /\ [][Next]_vars

(***************************************************************************)
(* SpecCursor: a ByteWriter over a buffer and the calls made on it, one    *)
(* after the other; a call that returned WriteError may be followed by     *)
(* another.                                                                *)
(***************************************************************************)

\* The calls made on one ByteWriter
MaxOps == 2

\* The lengths of the buffers a ByteWriter is made over
BufLens == {0, 1, 3, 9, MaxData + 4}

\* The byte slices handed to write
Slices == { << >>, << 1, 2, 3 >> }

\* The messages handed to write_length_delimited (as the f that writes
\* them), type by type: bodies of 0 bytes, of MaxData bytes, and bodies with
\* length-delimited fields of their own
FramedValues(ty) ==
    CASE ty = "Bytes" -> {<< >>, Data(MaxData)}
      [] ty = "Inner" -> {InnerOf(U(150, 32), << S(-1, 32) >>)}
      [] ty = "Outer" -> {v \in OuterValues : /\ v.x = U(300, 32) /\ v.items = << >>
                                              /\ v.choice # << [A |-> U(150, 32)] >>
                                              /\ (v.choice = << >>) # (v.inner = << >>)}

\* The messages handed to write_field, write_repeated and write_optional
FieldValues(ty) ==
    CASE ty = "u32"   -> {U(300, 32)}
      [] ty = "Bytes" -> {<< 65, 66 >>}
      [] ty = "Inner" -> {InnerOf(U(150, 32), << S(-1, 32) >>)}

InitCursor ==
    /\ \E n \in BufLens : w = [buf |-> NewBuf(n), pos |-> 0]
    /\ ret = "none"
    /\ hist = << >>
    /\ wmsg = [ty |-> "none"]
    /\ input = NoInput
    /\ rd = [st |-> "none"]
    /\ fop = [name |-> "none"]
    /\ lp = [st |-> "none"]
    \* no arithmetic of the ByteWriter can overflow: one build stands for both
    /\ overflow_checks = TRUE

\* The ByteWriter as the next call finds it
Cursor == [buf |-> w.buf, pos |-> w.pos, st |-> "ok"]

\* Another call can be made
Callable == Len(hist) < MaxOps /\ ret # "panic"

\* The call op has returned, leaving the cursor c; body is what the f of a
\* write_length_delimited wrote, << >> for the other calls
Returned(op, c, body) ==
    /\ w' = [buf |-> c.buf, pos |-> c.pos]
    /\ ret' = c.st
    /\ hist' = Append(hist, [op |-> op, before |-> w, body |-> body])
    /\ UNCHANGED <<wmsg, input, rd, fop, lp, overflow_checks>>

OpWrite(bs) == Callable /\ Returned("write", ByteWriter_write(Cursor, bs), << >>)

OpWriteU8(val) == Callable /\ Returned("write_u8", write_u8(Cursor, val), << >>)

OpWriteU16(val) == Callable /\ Returned("write_u16", write_u16(Cursor, val), << >>)

OpWriteU32(val) == Callable /\ Returned("write_u32", write_u32(Cursor, val), << >>)

OpWriteU64(val) == Callable /\ Returned("write_u64", write_u64(Cursor, val), << >>)

OpWriteVaruint32(val) ==
    Callable /\ Returned("write_varuint32", write_varuint32(Cursor, val), << >>)

OpWriteVaruint64(val) ==
    Callable /\ Returned("write_varuint64", write_varuint64(Cursor, val), << >>)

OpWriteVarint32(val) ==
    Callable /\ Returned("write_varint32", write_varint32(Cursor, val), << >>)

OpWriteVarint64(val) ==
    Callable /\ Returned("write_varint64", write_varint64(Cursor, val), << >>)

\* w.write_length_delimited(|w| msg.write_raw(w)), msg of type ty
OpWriteLengthDelimited(ty, msg) ==
    /\ Callable
    /\ LET Framed(cf) ==
               Returned("write_length_delimited", write_length_delimited(w.pos, cf),
                        IF cf.st = "ok" THEN SubSeq(cf.buf, w.pos + 1, cf.pos) ELSE << >>)
       IN Framed(Message_write_raw(ty, msg, Cursor))

OpWriteField(tag, ty, msg) ==
    Callable /\ Returned("write_field", write_field(Cursor, U(tag, 32), ty, msg), << >>)

OpWriteRepeated(tag, ty, msg) ==
    Callable /\ Returned("write_repeated", write_repeated(Cursor, U(tag, 32), ty, msg), << >>)

OpWriteOptional(tag, ty, msg) ==
    Callable /\ Returned("write_optional", write_optional(Cursor, U(tag, 32), ty, msg), << >>)

OpWriteOneof(opt, msg) ==
    Callable /\ Returned("write_oneof", write_oneof(Cursor, "Choice", opt, msg), << >>)

NextCursor ==
    \/ \E bs \in Slices : OpWrite(bs)
    \/ OpWriteU8(U(255, 8))
    \/ OpWriteU16(U(258, 16))
    \/ OpWriteU32(U(1, 32))
    \/ OpWriteU64(Not(U(0, 64)))
    \/ \E val \in {U(127, 32), U(128, 32), Not(U(0, 32))} : OpWriteVaruint32(val)
    \/ \E val \in {U(300, 64), Not(U(0, 64))} : OpWriteVaruint64(val)
    \/ \E val \in {S(-1, 32), S(-65, 32)} : OpWriteVarint32(val)
    \/ \E val \in {S(-2, 64), S(-65, 64)} : OpWriteVarint64(val)
    \/ \E ty \in {"Bytes", "Inner", "Outer"} : \E msg \in FramedValues(ty) :
          OpWriteLengthDelimited(ty, msg)
    \/ \E ty \in {"u32", "Bytes", "Inner"} : \E msg \in FieldValues(ty) :
          \E tag \in {1, 16} : OpWriteField(tag, ty, msg)
    \/ \E ty \in {"u32", "Inner"} : \E m \in FieldValues(ty) :
          \E msg \in {<< >>, << m, m >>} : OpWriteRepeated(4, ty, msg)
    \/ \E m \in FieldValues("Inner") : \E msg \in {<< >>, << m >>} : OpWriteOptional(2, "Inner", msg)
    \/ \E m \in ChoiceValues :
          \/ OpWriteOneof(FALSE, m)
          \/ \E msg \in {<< >>, << m >>} : OpWriteOneof(TRUE, msg)

SpecCursor == InitCursor /\ [][NextCursor]_vars

(***************************************************************************)
(* SpecField: a field arrives, FieldIter::next makes a FieldReader of it,  *)
(* and one FieldReader call consumes it.                                   *)
(***************************************************************************)

\* The bytes a field is made from: Varint fields (one byte, two bytes, a
\* value too wide for a u8), LengthDelimited fields (empty, a submessage, a
\* byte), both under tag 5 as well, and a field that is cut short
FieldBytes ==
    { << 8, 1 >>, << 8, 150, 1 >>, << 8, 128, 4 >>, << 10, 0 >>, << 10, 2, 8, 5 >>,
      << 10, 1, 1 >>, << 40, 1 >>, << 42, 2, 8, 1 >>, << 10, 3, 1 >> }

\* The targets a FieldReader reads into, type by type
Targets(ty) ==
    CASE ty = "bool"  -> {FALSE, TRUE}
      [] ty = "u8"    -> {U(0, 8), U(9, 8)}
      [] ty = "u32"   -> {U(0, 32), U(9, 32)}
      [] ty = "i32"   -> {S(0, 32), S(-9, 32)}
      [] ty = "Bytes" -> {<< >>, << 9 >>}
      [] ty = "Color" -> {"Red", "Blue"}
      [] ty = "Inner" -> {InnerOf(U(0, 32), << >>), InnerOf(U(9, 32), << S(-9, 32) >>)}

TargetTypes == {"bool", "u8", "u32", "i32", "Bytes", "Color", "Inner"}

InitField ==
    /\ w = [buf |-> << >>, pos |-> 0]
    /\ ret = "none"
    /\ hist = << >>
    /\ wmsg = [ty |-> "none"]
    /\ input = NoInput
    /\ rd = [st |-> "none"]
    /\ fop = [name |-> "none"]
    /\ lp = [st |-> "none"]
    /\ overflow_checks \in BOOLEAN

\* r.read_fields().next() on the bytes that arrive
FieldArrives(data) ==
    /\ fop.name = "none"
    /\ input' = [kind |-> "field", bytes |-> data]
    /\ fop' = [name |-> "next", item |-> FieldIter_next(data)]
    /\ UNCHANGED <<w, ret, hist, wmsg, rd, lp, overflow_checks>>

\* The iterator has yielded Some(Ok(r)), not yet consumed
Yielded == fop.name = "next" /\ fop.item.st = "ok"

\* The call `name` on the FieldReader, for a target of type ty, has returned r
Consumed(name, ty, target, r) ==
    /\ fop' = [name |-> name, fr |-> fop.item.fr, ty |-> ty, target |-> target,
               st |-> r.st, val |-> r.val, calls |-> r.calls]
    /\ UNCHANGED <<w, ret, hist, wmsg, input, rd, lp, overflow_checks>>

\* r.read(&mut msg)
FRead(ty, msg) ==
    Yielded /\ Consumed("read", ty, msg, FieldReader_read(fop.item.fr, ty, msg))

\* r.read_repeated(&mut msg), msg a heapless::Vec<ty, ItemsCap>
FReadRepeated(ty, msg) ==
    Yielded /\ Consumed("read_repeated", ty, msg,
                        read_repeated(fop.item.fr, ty, ItemsCap, msg))

\* r.read_optional(&mut msg), msg an Option<ty>
FReadOptional(ty, msg) ==
    Yielded /\ Consumed("read_optional", ty, msg, read_optional(fop.item.fr, ty, msg))

\* r.read_oneof_variant::<ty>()
FReadOneofVariant(ty) ==
    Yielded /\ Consumed("read_oneof_variant", ty, << >>, read_oneof_variant(fop.item.fr, ty))

\* r.read_oneof(&mut msg), msg a Choice or an Option<Choice>
FReadOneof(opt, msg) ==
    Yielded /\ Consumed("read_oneof", "Choice", msg, read_oneof(fop.item.fr, "Choice", opt, msg))

NextField ==
    \/ \E data \in FieldBytes : FieldArrives(data)
    \/ Yielded /\ \E ty \in TargetTypes : \E msg \in Targets(ty) : FRead(ty, msg)
    \/ Yielded /\ \E ty \in TargetTypes : \E m \in Targets(ty) :
          \E msg \in {<< >>, << m >>, << m, m >>} : FReadRepeated(ty, msg)
    \/ Yielded /\ \E ty \in TargetTypes : \E m \in Targets(ty) :
          \E msg \in {<< >>, << m >>} : FReadOptional(ty, msg)
    \/ \E ty \in TargetTypes : FReadOneofVariant(ty)
    \/ Yielded /\ \E m \in ChoiceValues :
          \/ FReadOneof(FALSE, m)
          \/ \E msg \in {<< >>, << m >>} : FReadOneof(TRUE, msg)

SpecField == InitField /\ [][NextField]_vars

(***************************************************************************)
(* Properties of the FieldReader, checked under SpecField.                 *)
(***************************************************************************)

\* C8 (wire-type mismatch): read, read_repeated, read_optional and
\* read_oneof_variant on a field whose wire type is not the WIRE_TYPE of the
\* target's message type return ReadError without calling read_raw, append
\* or set, and leave the target as it was.
C8_WireTypeMismatch ==
    (/\ fop.name \in {"read", "read_repeated", "read_optional", "read_oneof_variant"}
     /\ fop.fr.wire_type # WIRE_TYPE(fop.ty))
        => /\ fop.st = "err"
           /\ fop.calls = << >>
           /\ fop.name # "read_oneof_variant" => fop.val = fop.target

\* A LengthDelimited field was refused by read_repeated into a Vec of u32
\* that held an element
C8_Witness ==
    /\ fop.name = "read_repeated" /\ fop.ty = "u32" /\ Len(fop.target) = 1
    /\ fop.fr.wire_type = "LengthDelimited" /\ fop.st = "err" /\ fop.val = fop.target

(***************************************************************************)
(* Properties of the ByteWriter, checked under SpecCursor.                 *)
(***************************************************************************)

\* The call made last
Last == hist[Len(hist)]

RECURSIVE MinimalVarint(_)
\* The minimal varint encoding of the number n: 7 bits a byte, the low bits
\* first, 0x80 set on every byte but the last
MinimalVarint(n) ==
    IF n < 128 THEN << n >> ELSE << (n % 128) + 128 >> \o MinimalVarint(n \div 128)

\* C2 (length-delimited framing): after a successful write_length_delimited(f)
\* entered at pos = start, with body the len bytes f emitted, buf[start ..
\* start+h) is the minimal varint of len, buf[start+h .. start+h+len) is
\* body, and pos = start + h + len.
C2_Framing ==
    (hist # << >> /\ Last.op = "write_length_delimited" /\ ret = "ok") =>
        LET Holds(start, body, header) ==
                /\ w.pos = start + Len(header) + Len(body)
                /\ w.pos <= Len(w.buf)
                /\ SubSeq(w.buf, start + 1, start + Len(header)) = header
                /\ SubSeq(w.buf, start + Len(header) + 1, w.pos) = body
        IN Holds(Last.before.pos, Last.body, MinimalVarint(Len(Last.body)))

\* An empty body was framed at 0 and then a body of 128 bytes or more, with
\* a two-byte header, at 1
C2_Witness ==
    /\ Len(hist) = 2 /\ ret = "ok"
    /\ hist[1].op = "write_length_delimited" /\ hist[1].body = << >>
    /\ hist[2].op = "write_length_delimited" /\ hist[2].before.pos = 1
    /\ Len(hist[2].body) >= 128 /\ w.pos = 1 + 2 + Len(hist[2].body)

\* The calls whose failure leaves the ByteWriter as it was
PlainWrites == {"write", "write_u8", "write_u16", "write_u32", "write_u64"}

\* The calls C5 names
NamedWrites ==
    PlainWrites \cup {"write_varuint32", "write_varuint64", "write_varint32", "write_varint64",
                      "write_length_delimited", "write_field", "write_repeated"}

\* C5 as the claim states it: a call that returns WriteError leaves pos as
\* it was before the call.
C5_PosUnchanged ==
    (hist # << >> /\ Last.op \in NamedWrites /\ ret = "err") => w.pos = Last.before.pos

\* C5, amended: write and write_u8/u16/u32/u64 that return WriteError leave
\* pos, and the buffer, as they were; the other calls that return WriteError
\* leave pos between its value before the call and buf.len(), and the bytes
\* before that value as they were.
C5_FailedWrite ==
    (hist # << >> /\ ret = "err") =>
        IF Last.op \in PlainWrites THEN w = Last.before
        ELSE /\ Last.before.pos <= w.pos /\ w.pos <= Len(w.buf)
             /\ Len(w.buf) = Len(Last.before.buf)
             /\ SubSeq(w.buf, 1, Last.before.pos) = SubSeq(Last.before.buf, 1, Last.before.pos)

\* write_u32 failed on a buffer of 3 bytes and left pos at 0; then
\* write_varuint32 of a five-byte varint failed and left pos at 3
C5_Witness ==
    /\ Len(hist) = 2 /\ ret = "err" /\ Len(w.buf) = 3
    /\ hist[1].op = "write_u32" /\ hist[2].before = hist[1].before
    /\ hist[2].op = "write_varuint32" /\ hist[2].before.pos = 0 /\ w.pos = 3

\* C19 (frame of the writer): a write-cursor call started at position p
\* leaves buf[0..p) as it was, whether it succeeds or fails, and the length
\* of the buffer with it; a write_length_delimited that succeeds leaves the
\* bytes at indexes >= the new pos as they were.
C19_WriterFrame ==
    hist # << >> =>
        /\ Len(w.buf) = Len(Last.before.buf)
        /\ \A i \in 1..Last.before.pos : w.buf[i] = Last.before.buf[i]
        /\ (Last.op = "write_length_delimited" /\ ret = "ok")
               => \A i \in (w.pos + 1)..Len(w.buf) : w.buf[i] = Last.before.buf[i]

\* A write_length_delimited started behind bytes already written and shifted
\* a body for its header, with room left behind the new pos
C19_Witness ==
    /\ Len(hist) = 2 /\ Last.op = "write_length_delimited" /\ ret = "ok"
    /\ Last.before.pos > 0 /\ Len(Last.body) > 0
    /\ w.pos = Last.before.pos + 1 + Len(Last.body)
    /\ w.pos < Len(w.buf)

(***************************************************************************)
(* Properties of write() and read(), checked under Spec.                   *)
(***************************************************************************)

\* What read() returns when it returns the value that was written
ReadBack == [ty |-> wmsg.ty, st |-> "ok", val |-> wmsg.val]

\* C1 (round trip): write(v, buf) into the largest buffer returns Ok(n), and
\* read(buf[0..n)) returns Ok(v') with v' = v, for every value v of every
\* message type of the schema.
C1_RoundTrip ==
    /\ (wmsg.ty # "none" /\ Len(w.buf) = MaxBuf) => ret = "ok"
    /\ (input.kind = "output" /\ rd.st # "none") => rd = ReadBack

\* A message with a oneof, a repeated and an optional submessage field set
\* has made the round trip
C1_Witness ==
    /\ input.kind = "output" /\ rd = ReadBack /\ wmsg.ty = "Outer"
    /\ wmsg.val.choice # << >> /\ Len(wmsg.val.items) = 2 /\ wmsg.val.inner # << >>

\* C3 (serialize fits exactly): with n the length of the complete encoding of
\* v, write(v, buf) returns Ok(n) and buf[0..n) is the encoding when
\* buf.len() >= n, and WriteError when buf.len() < n.
C3_FitsExactly ==
    (wmsg.ty # "none" /\ input.kind = "none") =>
        LET Fits(full) ==
                /\ full.st = "ok"
                /\ IF Len(w.buf) >= full.n
                   THEN /\ ret = "ok" /\ w.pos = full.n
                        /\ SubSeq(w.buf, 1, w.pos) = SubSeq(full.buf, 1, full.n)
                   ELSE ret = "err"
        IN Fits(lib_write(wmsg.ty, wmsg.val, NewBuf(MaxBuf)))

\* A message nested three deep is written into a buffer it fills exactly
C3_Witness ==
    /\ ret = "ok" /\ Len(w.buf) = w.pos /\ wmsg.ty = "Deep"
    /\ wmsg.val.s.inner # << >> /\ wmsg.val.s.choice # << >>

\* C4 (forward compatibility): a valid encoding of v with a well-formed field
\* of an unknown tag inserted at the end or between two fields parses to v.
C4_UnknownFieldSkipped ==
    (input.kind = "unknown" /\ rd.st # "none") => rd = ReadBack

\* An unknown field strictly between two fields of the message was skipped
C4_Witness ==
    /\ input.kind = "unknown" /\ rd = ReadBack
    /\ 0 < input.at /\ input.at < Len(input.base)

\* C6 for the inputs of Spec, which are shorter than MaxBuf + 12 bytes:
\* neither write() nor read() panics.
C6_NoPanicWithinBounds == ret # "panic" /\ rd.st # "panic"

\* C7 for the inputs of Spec, which are shorter than MaxBuf + 12 bytes: a
\* field with a reserved wire type, a truncated header or a truncated payload,
\* after any number of valid fields and whether its tag is known or not, is a
\* failure item of FieldIter, and read() returns ReadError.
\* C7 for the inputs of Spec: a field with a reserved wire type inserted at a
\* field boundary, or a truncated header or payload appended, makes FieldIter
\* yield a failure item last and read() return ReadError.
C7_MalformedAbortsWithinBounds ==
    (input.kind = "malformed" /\ rd.st # "none") =>
        LET Failing(items) == items # << >> /\ items[Len(items)].st = "err"
        IN rd.st = "err" /\ Failing(FieldItems(input.bytes))

\* write() has just returned Ok
Written == ret = "ok" /\ wmsg.ty # "none" /\ input.kind = "none"

\* The top-level fields of the bytes write() produced, as FieldIter yields them
Emitted == FieldItems(SubSeq(w.buf, 1, w.pos))

\* The tag of item i of items, a u32
TagAt(items, i) == items[i].fr.tag

\* The oneof value a holder h of field f holds: << v >>, or << >> for None
Held(f, h) == IF f.opt THEN h ELSE << h >>

\* The items among `items` whose tag is a tag of the oneof field f
OneofItems(f, items) ==
    {i \in DOMAIN items : \E j \in DOMAIN f.tags : TagAt(items, i) = U(f.tags[j], 32)}

\* The oneof field f of a message val was written as `items` say: no field of
\* f's tags for None, else exactly one, with the tag of the active variant
OneofWritten(f, val, items) ==
    LET One(held, hits) ==
            IF held = << >> THEN hits = {}
            ELSE /\ Cardinality(hits) = 1
                 /\ \A i \in hits : TagAt(items, i) = U(VariantOf(f.ty, Active(held[1])).tag, 32)
    IN One(Held(f, val[f.name]), OneofItems(f, items))

\* The two oneof values hold different variants
TwoVariants(first, second) ==
    first # << >> /\ second # << >> /\ Active(first[1]) # Active(second[1])

\* C9 (oneof exclusivity): write emits exactly one field for a oneof value,
\* with the tag of the active variant, and none for an Option that is None;
\* read() of a buffer with fields of two different variants of a oneof, the
\* encodings of two values one after the other, returns the variant that
\* comes last.
C9_OneofExclusive ==
    /\ Written =>
          \A i \in DOMAIN Messages[wmsg.ty] :
              Messages[wmsg.ty][i].kind = "Oneof" =>
                  OneofWritten(Messages[wmsg.ty][i], wmsg.val, Emitted)
    /\ (input.kind = "spliced" /\ rd.st = "ok") =>
          \A i \in DOMAIN Messages[wmsg.ty] :
              LET f == Messages[wmsg.ty][i] IN
              (f.kind = "Oneof" /\ TwoVariants(Held(f, wmsg.val[f.name]),
                                               Held(f, input.second[f.name])))
                  => rd.val[f.name] = input.second[f.name]

\* A buffer with a field of variant B and then one of variant A was read
C9_Witness ==
    /\ input.kind = "spliced" /\ rd.st = "ok" /\ wmsg.ty = "Outer"
    /\ wmsg.val.choice # << >> /\ input.second.choice # << >>
    /\ Active(wmsg.val.choice[1]) = "B" /\ Active(input.second.choice[1]) = "A"
    /\ rd.val.choice = input.second.choice

\* The field of message type ty one of whose tags is tag
FieldOfTag(ty, tag) ==
    Messages[ty][CHOOSE i \in DOMAIN Messages[ty] :
                    \E j \in DOMAIN Messages[ty][i].tags : U(Messages[ty][i].tags[j], 32) = tag]

\* C10 as the claim states it: the tags of the top-level fields write_raw
\* produces are in ascending order.
C10_AscendingTags ==
    Written =>
        LET Ascending(items) ==
                \A i \in DOMAIN items : \A j \in DOMAIN items :
                    i < j => ULe(TagAt(items, i), TagAt(items, j))
        IN Ascending(Emitted)

\* C10, amended: the top-level fields write_raw produces are in ascending
\* order of the minimum declared tag of the field each belongs to (for a
\* oneof field the least of its variant tags, whichever variant is active).
C10_AscendingMinTags ==
    Written =>
        LET Key(items, i) == MinTag(FieldOfTag(wmsg.ty, TagAt(items, i)))
            Ascending(items) ==
                \A i \in DOMAIN items : \A j \in DOMAIN items :
                    i < j => Key(items, i) <= Key(items, j)
        IN Ascending(Emitted)

\* A oneof whose active variant has tag 5 was written before the fields of
\* tags 2, 3 and 4
C10_Witness ==
    /\ Written /\ wmsg.ty = "Outer" /\ wmsg.val.choice # << >>
    /\ Active(wmsg.val.choice[1]) = "B"
    /\ Len(Emitted) = 5 /\ TagAt(Emitted, 1) = U(5, 32) /\ TagAt(Emitted, 2) = U(2, 32)

(***************************************************************************)
(* SpecLoop: FieldIter::next on data that starts with a run of             *)
(* continuation bytes (0x80), the loop of the read_varuint32 that reads    *)
(* the header taken one iteration at a time.  The reader is [run, tail]:   *)
(* `run` bytes 0x80 followed by the bytes of tail, so that a run as long   *)
(* as the i32 `shift` can count is a state of the model.                   *)
(***************************************************************************)

\* Iterations are taken one at a time over the first and the last
\* MaxSteps bytes of a run
MaxSteps == 6

\* The shortest run of continuation bytes whose last `shift += 7` exceeds
\* i32::MAX
OverflowRun == I32Max \div 7 + 1

RunLengths == 0..MaxSteps \cup {OverflowRun - 1, OverflowRun, OverflowRun + 1}

\* What follows the run: nothing, the last byte of the header, that byte
\* and a payload, or one more continuation byte before them
Tails == { << >>, << 1 >>, << 1, 5 >>, << 255, 1, 5 >> }

InitLoop ==
    /\ w = [buf |-> << >>, pos |-> 0]
    /\ ret = "none"
    /\ hist = << >>
    /\ wmsg = [ty |-> "none"]
    /\ input = NoInput
    /\ rd = [st |-> "none"]
    /\ fop = [name |-> "none"]
    /\ overflow_checks \in BOOLEAN
    /\ \E run \in RunLengths : \E tail \in Tails :
          /\ run + Len(tail) > 0
          /\ lp = [data |-> [run |-> run, tail |-> tail], run |-> run, tail |-> tail,
                   res |-> U(0, 32), shift |-> 0, st |-> "loop", item |-> [st |-> "pending"]]

\* One iteration of the loop of read_varuint32
Iterate ==
    /\ lp.st = "loop"
    /\ lp.run <= MaxSteps \/ lp.shift < 7 * MaxSteps
    /\ LET \* shift += 7, then the next iteration
           Add7(l) ==
               IF l.shift <= I32Max - 7 THEN [l EXCEPT !.shift = l.shift + 7]
               ELSE IF overflow_checks THEN [l EXCEPT !.st = "panic"]
               ELSE [l EXCEPT !.shift = WrappingAdd7(l.shift)]
           \* after the `if shift < 32`: break on a byte without 0x80
           Step(x, l) == IF x < 128 THEN [l EXCEPT !.st = "ok"] ELSE Add7(l)
           \* x = self.read_u8()? has read x, l.run and l.tail are what is left
           Got(x, l) ==
               Step(x, IF l.shift < 32
                       THEN [l EXCEPT !.res = Or(l.res, GroupAt(x, l.shift, 32))]
                       ELSE l)
       IN lp' = IF lp.run > 0 THEN Got(128, [lp EXCEPT !.run = lp.run - 1])
                ELSE IF lp.tail # << >> THEN Got(Head(lp.tail), [lp EXCEPT !.tail = Tail(lp.tail)])
                ELSE [lp EXCEPT !.st = "err"]
    /\ UNCHANGED <<w, ret, hist, wmsg, input, rd, fop, overflow_checks>>

\* k iterations over k bytes 0x80 of the run, none of whose `shift += 7`
\* overflows: each ORs (0x80 & 0x7F) << shift = 0 into res, or nothing, and
\* adds 7 to shift
IterateRun(k) ==
    /\ lp.st = "loop"
    /\ k >= 1 /\ k <= lp.run
    /\ lp.shift >= 0 /\ k <= (I32Max - lp.shift) \div 7
    /\ lp' = [lp EXCEPT !.run = lp.run - k, !.shift = lp.shift + 7 * k]
    /\ UNCHANGED <<w, ret, hist, wmsg, input, rd, fop, overflow_checks>>

\* read_varuint32 has returned the header, or failed: the rest of
\* FieldIter::next
Yield ==
    /\ lp.st \in {"ok", "err", "panic"} /\ lp.item.st = "pending"
    /\ lp.run = 0 \/ lp.st = "panic"
    /\ lp' = [lp EXCEPT !.item = FieldIter_header([st |-> lp.st, val |-> lp.res,
                                                   data |-> lp.tail])]
    /\ UNCHANGED <<w, ret, hist, wmsg, input, rd, fop, overflow_checks>>

NextLoop ==
    \/ Iterate
    \/ \E j \in 0..MaxSteps : lp.st = "loop" /\ lp.run > 2 * MaxSteps /\ IterateRun(lp.run - j)
    \/ Yield

SpecLoop == InitLoop /\ [][NextLoop]_vars

(***************************************************************************)
(* Properties of FieldIter::next, checked under SpecLoop.                  *)
(***************************************************************************)

\* The header varint of the data is cut short: every byte of the data has
\* 0x80 set
HeaderTruncated == \A i \in DOMAIN lp.data.tail : lp.data.tail[i] >= 128

\* C6 (no panic on data): whatever the bytes, reading them ends with a value
\* or with ReadError, never with a panic: here, FieldIter::next and the
\* read_varuint32 that reads the header.
C6_NoPanic == lp.st # "panic" /\ lp.item.st # "panic"

\* C7 (malformed fields abort the decode): when the header varint of a field
\* is truncated, FieldIter yields a failure item.
C7_TruncatedHeaderFails ==
    (HeaderTruncated /\ lp.item.st # "pending") => lp.item.st = "err"

(***************************************************************************)
(* SpecCodec: one varint call on a fresh ByteWriter, or a varint that      *)
(* arrives from a peer, and one read of the bytes.                         *)
(***************************************************************************)

\* The ByteWriter is made over a buffer of CodecBuf bytes, which holds the
\* longest varint (10 bytes)
CodecBuf == 12

\* The longest varint that arrives from a peer, in bytes
MaxGroups == 11

\* 2^k
Bit(k, width) == [i \in 1..width |-> IF i = k + 1 THEN 1 ELSE 0]

\* 2^k - 1
Ones(k, width) == [i \in 1..width |-> IF i <= k THEN 1 ELSE 0]

\* 0x55..55
Stripes(width) == [i \in 1..width |-> i % 2]

\* The integers of `width` bits handed to the varint writers: every 2^k and
\* 2^k - 1 (0, 1, the values on both sides of every byte count, the type's
\* MAX; read as signed, INT_MIN, INT_MAX and -1), 0x55..55 and 0xAA..AA
IntValues(width) ==
    {Ones(k, width) : k \in 0..width} \cup {Bit(k, width) : k \in 0..(width - 1)}
    \cup {Stripes(width), Not(Stripes(width))}

\* The bytes of a varint whose 7-bit groups are `groups`
Varint(groups) ==
    [i \in DOMAIN groups |-> IF i < Len(groups) THEN groups[i] + 128 ELSE groups[i]]

\* The groups of the varints of n bytes that arrive: all ones, all zero (0,
\* padded), 5 padded with zero groups, a lone high group, 5 with a high
\* group of 16 (2^32 + 5 when n = 5), and alternating bits
GroupPatterns(n) ==
    { [i \in 1..n |-> 127], [i \in 1..n |-> 0],
      [i \in 1..n |-> IF i = 1 THEN 5 ELSE 0],
      [i \in 1..n |-> IF i = n THEN 1 ELSE 0],
      [i \in 1..n |-> IF i = n THEN 16 ELSE IF i = 1 THEN 5 ELSE 0],
      [i \in 1..n |-> IF i % 2 = 1 THEN 85 ELSE 42] }

VarintInputs == UNION {{Varint(g) : g \in GroupPatterns(n)} : n \in 1..MaxGroups}

\* What follows the varint in the reader: nothing, or two more bytes
Trails == { << >>, << 129, 0 >> }

InitCodec ==
    /\ w = [buf |-> NewBuf(CodecBuf), pos |-> 0]
    /\ ret = "none"
    /\ hist = << >>
    /\ wmsg = [ty |-> "none"]
    /\ input = NoInput
    /\ rd = [st |-> "none"]
    /\ fop = [name |-> "none"]
    /\ lp = [st |-> "none"]
    /\ overflow_checks \in BOOLEAN

\* The byte strings that arrive to be read as a String.  Well-formed: the
\* empty string, ASCII, scalar values of two, three and four bytes, and a
\* string of five bytes.  Ill-formed: 0xFF, a lone continuation byte, overlong
\* forms of two, three and four bytes, a surrogate, a value above U+10FFFF
\* and a truncated scalar value.
Texts ==
    { << >>, << 104, 105 >>, << 195, 169 >>, << 226, 130, 172 >>, << 240, 159, 152, 128 >>,
      << 104, 195, 169, 33, 33 >>,
      << 255 >>, << 128 >>, << 192, 128 >>, << 224, 128, 128 >>, << 240, 128, 128, 128 >>,
      << 237, 160, 128 >>, << 244, 144, 128, 128 >>, << 226, 130 >> }

\* The lengths handed to read_slice: 0, 1, 5, and lengths of 2^31, 2^32 and
\* usize::MAX
SliceLens ==
    {ZeroExt(U(k, 32), 64) : k \in {0, 1, 5}} \cup {Bit(31, 64), Bit(32, 64), Ones(64, 64)}

\* Nothing written and nothing arrived yet
CodecIdle == hist = << >> /\ input.kind = "none"

\* The call op(val) on the ByteWriter has returned, leaving the cursor c
Encoded(op, val, c) ==
    /\ w' = [buf |-> c.buf, pos |-> c.pos]
    /\ ret' = c.st
    /\ hist' = << [op |-> op, val |-> val, before |-> w, body |-> << >>] >>
    /\ UNCHANGED <<wmsg, input, rd, fop, lp, overflow_checks>>

EncVaruint32(val) == CodecIdle /\ Encoded("write_varuint32", val, write_varuint32(Cursor, val))

EncVaruint64(val) == CodecIdle /\ Encoded("write_varuint64", val, write_varuint64(Cursor, val))

EncVarint32(val) == CodecIdle /\ Encoded("write_varint32", val, write_varint32(Cursor, val))

EncVarint64(val) == CodecIdle /\ Encoded("write_varint64", val, write_varint64(Cursor, val))

\* msg.write_raw(w) of the String text
EncString(text) ==
    /\ from_utf8_ok(text)
    /\ CodecIdle /\ Encoded("write_raw", text, Message_write_raw("String", text, Cursor))

\* The bytes of a string arrive from a peer
ArriveText(text) ==
    /\ CodecIdle
    /\ input' = [kind |-> "text", bytes |-> text]
    /\ UNCHANGED <<w, ret, hist, wmsg, rd, fop, lp, overflow_checks>>

\* A varint arrives from a peer, followed by trail
Arrive(varint, trail) ==
    /\ CodecIdle
    /\ input' = [kind |-> "varint", bytes |-> varint \o trail, varint |-> varint,
                 trail |-> trail]
    /\ UNCHANGED <<w, ret, hist, wmsg, rd, fop, lp, overflow_checks>>

\* The bytes a ByteReader is made over: what arrived, or what was written
Wire == IF input.kind # "none" THEN input.bytes ELSE SubSeq(w.buf, 1, w.pos)

\* There are bytes of a varint, and they have not been read
Readable ==
    /\ rd.st = "none"
    /\ input.kind = "varint" \/ (hist # << >> /\ hist[1].op # "write_raw" /\ ret = "ok")

\* There are bytes of a string, and they have not been read
TextReadable ==
    /\ rd.st = "none"
    /\ input.kind = "text" \/ (hist # << >> /\ hist[1].op = "write_raw" /\ ret = "ok")

\* The call op on the ByteReader has returned r
Decoded(op, r) ==
    /\ rd' = [op |-> op, st |-> r.st, val |-> r.val, data |-> r.data]
    /\ UNCHANGED <<w, ret, hist, wmsg, input, fop, lp, overflow_checks>>

DecVaruint32 == Readable /\ Decoded("read_varuint32", read_varuint32(Wire))

DecVaruint64 == Readable /\ Decoded("read_varuint64", read_varuint64(Wire))

DecVarint32 == Readable /\ Decoded("read_varint32", read_varint32(Wire))

DecVarint64 == Readable /\ Decoded("read_varint64", read_varint64(Wire))

DecRead(N) == Readable /\ Decoded("read", ByteReader_read(Wire, N))

DecU8 == Readable /\ Decoded("read_u8", read_u8(Wire))

DecU16 == Readable /\ Decoded("read_u16", read_u16(Wire))

DecU32 == Readable /\ Decoded("read_u32", read_u32(Wire))

DecU64 == Readable /\ Decoded("read_u64", read_u64(Wire))

DecSlice(len) == Readable /\ Decoded("read_slice", read_slice(Wire, len))

DecToEnd == Readable /\ Decoded("read_to_end", read_to_end(Wire))

DecVarslice == Readable /\ Decoded("read_varslice", read_varslice(Wire))

DecVaruintBytes == Readable /\ Decoded("read_varuint_bytes", read_varuint_bytes(Wire))

\* The scalar types that are read from a Varint payload
VarintTypes == {"u8", "u16", "u32", "u64", "i8", "i16", "i32", "i64"}

\* msg.read_raw(&mut ByteReader::new(payload)) into a default msg of scalar
\* type ty, the payload being a varint
DecRaw(ty) ==
    /\ Readable
    /\ LET Raw(r) == rd' = [op |-> "read_raw", ty |-> ty, st |-> r.st, val |-> r.val]
       IN Raw(Message_read_raw(ty, Default(ty), Wire))
    /\ UNCHANGED <<w, ret, hist, wmsg, input, fop, lp, overflow_checks>>

\* msg.read_raw(&mut ByteReader::new(payload)) into an empty String
DecString ==
    /\ TextReadable
    /\ LET Raw(r) == rd' = [op |-> "read_raw", ty |-> "String", st |-> r.st, val |-> r.val]
       IN Raw(Message_read_raw("String", Default("String"), Wire))
    /\ UNCHANGED <<w, ret, hist, wmsg, input, fop, lp, overflow_checks>>

NextCodec ==
    \/ \E val \in IntValues(32) : EncVaruint32(val)
    \/ \E val \in IntValues(64) : EncVaruint64(val)
    \/ \E val \in IntValues(32) : EncVarint32(val)
    \/ \E val \in IntValues(64) : EncVarint64(val)
    \/ \E varint \in VarintInputs : \E trail \in Trails : Arrive(varint, trail)
    \/ DecVaruint32
    \/ DecVaruint64
    \/ DecVarint32
    \/ DecVarint64
    \/ \E ty \in VarintTypes : DecRaw(ty)
    \/ \E N \in {0, 3, 16} : DecRead(N)
    \/ DecU8
    \/ DecU16
    \/ DecU32
    \/ DecU64
    \/ \E len \in SliceLens : DecSlice(len)
    \/ DecToEnd
    \/ DecVarslice
    \/ DecVaruintBytes
    \/ \E text \in Texts : EncString(text)
    \/ \E text \in Texts : ArriveText(text)
    \/ DecString

SpecCodec == InitCodec /\ [][NextCodec]_vars

(***************************************************************************)
(* Properties of the varint codec, checked under SpecCodec.                *)
(***************************************************************************)

\* The number of significant bits of b, 0 for 0
BitLength(b) ==
    IF IsZero(b) THEN 0 ELSE CHOOSE i \in DOMAIN b : b[i] = 1 /\ \A j \in DOMAIN b : j > i => b[j] = 0

\* Bits 7g .. 7g+6 of b as a number
Septet(b, g) ==
    LET B(i) == IF i <= Len(b) THEN b[i] ELSE 0
    IN B(7 * g + 1) + 2 * B(7 * g + 2) + 4 * B(7 * g + 3) + 8 * B(7 * g + 4)
       + 16 * B(7 * g + 5) + 32 * B(7 * g + 6) + 64 * B(7 * g + 7)

\* max(1, ceil(bitlength / 7))
CanonicalLen(b) == IF IsZero(b) THEN 1 ELSE (BitLength(b) + 6) \div 7

\* bs is the canonical varint of b
Canonical(bs, b) ==
    /\ Len(bs) = CanonicalLen(b)
    /\ \A i \in DOMAIN bs :
          bs[i] = Septet(b, i - 1) + (IF i < Len(bs) THEN 128 ELSE 0)
    /\ bs[Len(bs)] # 0 \/ (IsZero(b) /\ bs = << 0 >>)

\* C11 (varint canonicality on write): the bytes write_varuint32 and
\* write_varuint64 emit for x are the little-endian 7-bit groups of x,
\* max(1, ceil(bitlength(x)/7)) of them, bit 7 set on every byte but the
\* last, and the last byte is not zero unless x = 0, which is the byte 0x00.
C11_CanonicalVarint ==
    (hist # << >> /\ hist[1].op \in {"write_varuint32", "write_varuint64"})
        => /\ ret = "ok"
           /\ w.pos = hist[1].before.pos + CanonicalLen(hist[1].val)
           /\ Canonical(SubSeq(w.buf, 1, w.pos), hist[1].val)

\* u64::MAX was written in ten bytes
C11_Witness ==
    /\ hist # << >> /\ hist[1].op = "write_varuint64" /\ ret = "ok"
    /\ hist[1].val = Ones(64, 64) /\ w.pos = 10

\* The index of the terminator of the varint bs starts with
TermAt(bs) == CHOOSE i \in DOMAIN bs : bs[i] < 128 /\ \A j \in 1..(i - 1) : bs[j] >= 128

\* Bit j (bit 0 the lowest) of the unbounded value V of the varint bs starts
\* with: bit j % 7 of group j / 7, and 0 above the last group
WireBit(bs, j) ==
    IF j \div 7 + 1 <= TermAt(bs) THEN ((bs[j \div 7 + 1] % 128) \div (2 ^ (j % 7))) % 2 ELSE 0

\* V mod 2^width
WireValue(bs, width) == [i \in 1..width |-> WireBit(bs, i - 1)]

\* C12 for the varints of SpecCodec, of at most MaxGroups bytes:
\* read_varuint32 returns V mod 2^32 and read_varuint64 V mod 2^64, and the
\* reader is left at the first byte after the terminator.
C12_OverWidthWithinBounds ==
    (rd.st # "none" /\ rd.op \in {"read_varuint32", "read_varuint64"})
        => /\ rd.st = "ok"
           /\ rd.val = WireValue(Wire, IF rd.op = "read_varuint32" THEN 32 ELSE 64)
           /\ rd.data = SubSeq(Wire, TermAt(Wire) + 1, Len(Wire))

(***************************************************************************)
(* Properties of read_varuint32, checked under SpecLoop.                   *)
(***************************************************************************)

\* The data of the loop is a terminated varint, and bytes after it
Terminated(d) == \E i \in DOMAIN d.tail : d.tail[i] < 128

\* V mod 2^32 of the varint the data [run, tail] starts with: the groups of
\* the run are zero, and a group after the fifth is above bit 31
ExpectedOfRun(d) ==
    IF d.run >= 5 THEN U(0, 32)
    ELSE WireValue([i \in 1..d.run |-> 128] \o d.tail, 32)

\* C12 (over-width varints on read): for a terminated varint of any length,
\* read_varuint32 returns V mod 2^32, does not fail, and leaves the reader
\* at the first byte after the terminator.
C12_OverWidth ==
    (Terminated(lp.data) /\ lp.st # "loop")
        => /\ lp.st = "ok"
           /\ lp.res = ExpectedOfRun(lp.data)
           /\ lp.tail = SubSeq(lp.data.tail, TermAt(lp.data.tail) + 1, Len(lp.data.tail))

(***************************************************************************)
(* Properties of the signed varints, checked under SpecCodec.              *)
(***************************************************************************)

\* (n << 1) XOR (n >> (width-1)) modulo 2^width, bit by bit: bit 0 is the
\* sign of n, bit i is bit i-1 of n, inverted when n is negative
ZigzagOf(n) ==
    [i \in DOMAIN n |-> IF i = 1 THEN n[Len(n)] ELSE (n[i - 1] + n[Len(n)]) % 2]

\* The read call that takes back what the write call op wrote
ReadOf(op) == IF op = "write_varint32" THEN "read_varint32" ELSE "read_varint64"

\* C13 (zigzag round trip): write_varint32 / write_varint64 of n write the
\* varint of (n << 1) XOR (n >> (width-1)), and read_varint32 /
\* read_varint64 of the written bytes return n.
C13_ZigzagRoundTrip ==
    (hist # << >> /\ hist[1].op \in {"write_varint32", "write_varint64"})
        => /\ ret = "ok"
           /\ Canonical(SubSeq(w.buf, 1, w.pos), ZigzagOf(hist[1].val))
           /\ (rd.st # "none" /\ rd.op = ReadOf(hist[1].op))
                 => rd.st = "ok" /\ rd.val = hist[1].val /\ rd.data = << >>

\* i32::MIN was written and read back
C13_Witness ==
    /\ hist # << >> /\ hist[1].op = "write_varint32" /\ hist[1].val = Bit(31, 32)
    /\ rd.st = "ok" /\ rd.op = "read_varint32" /\ rd.val = Bit(31, 32)

(***************************************************************************)
(* Properties of the narrow scalar types, checked under SpecCodec.         *)
(***************************************************************************)

\* The bits of the narrow type ty
WidthOf(ty) == IF ty \in {"u8", "i8"} THEN 8 ELSE 16

\* The unbounded value V of the varint bs is 2^width or more
Exceeds(bs, width) == \E j \in width..(7 * TermAt(bs) - 1) : WireBit(bs, j) = 1

\* A narrow target has been read from a varint payload
NarrowRead(types) == rd.st # "none" /\ rd.op = "read_raw" /\ rd.ty \in types

\* C14 as the claim states it: reading a varint whose value V is greater
\* than 255 (65535) into a u8 (u16) returns ReadError, whatever the length
\* of the varint.
C14_StrictNarrowing ==
    (NarrowRead({"u8", "u16"}) /\ Exceeds(Wire, WidthOf(rd.ty))) => rd.st = "err"

\* C14, amended: the narrowing is strict on V mod 2^32, the value
\* read_varuint32 returns.  Reading into u8 / u16 returns ReadError when
\* V mod 2^32 is greater than 255 / 65535 and stores it otherwise; i8 / i16
\* return ReadError when the zigzag decoding of V mod 2^32 is out of range,
\* which is when V mod 2^32 is greater than 255 / 65535 as well.
C14_StrictNarrowingOf32 ==
    NarrowRead({"u8", "u16", "i8", "i16"}) =>
        IF \E i \in (WidthOf(rd.ty) + 1)..32 : WireValue(Wire, 32)[i] = 1
        THEN rd.st = "err"
        ELSE /\ rd.st = "ok"
             /\ ZigzagOf(rd.val) = WireValue(Wire, WidthOf(rd.ty)) \/ rd.ty \in {"u8", "u16"}
             /\ rd.val = WireValue(Wire, WidthOf(rd.ty)) \/ rd.ty \in {"i8", "i16"}

\* The varint of 2^32 + 5 was read into a u8, as 5
C14_Witness ==
    /\ NarrowRead({"u8"}) /\ Wire = << 133, 128, 128, 128, 16 >>
    /\ rd.st = "ok" /\ rd.val = U(5, 8)

(***************************************************************************)
(* SpecParse: a buffer put together by a peer arrives, fields repeated,    *)
(* duplicated or carrying tag 0, and read() parses it.                     *)
(***************************************************************************)

\* The bytes of one field: what write_field(tag, msg) writes
FieldEnc(tag, ty, msg) == bytes(write_field(ByteWriter_new(NewBuf(MaxBuf)), U(tag, 32), ty, msg))

\* The bytes write() produces for val
Encoding(ty, val) ==
    LET Out(r) == SubSeq(r.buf, 1, r.n)
    IN Out(lib_write(ty, val, NewBuf(2 * MaxBuf)))

\* Element i of the repeated field of the peer
Elem(i) == U(100 * i, 32)

RECURSIVE RepeatedFields(_, _)
\* k occurrences of Outer.items (tag 4), each after the bytes sep
RepeatedFields(k, sep) ==
    IF k = 0 THEN << >>
    ELSE RepeatedFields(k - 1, sep) \o sep \o FieldEnc(4, "u32", Elem(k))

\* What stands between the occurrences: nothing, the field x (tag 3), or a
\* field the schema does not know
Separators == { << >>, FieldEnc(3, "u32", U(7, 32)), << 72, 1 >> }

InitParse ==
    /\ w = [buf |-> << >>, pos |-> 0]
    /\ ret = "none"
    /\ hist = << >>
    /\ wmsg = [ty |-> "none"]
    /\ input = NoInput
    /\ rd = [st |-> "none"]
    /\ fop = [name |-> "none"]
    /\ lp = [st |-> "none"]
    /\ overflow_checks \in BOOLEAN

\* An Outer with k occurrences of its repeated field arrives
Repeats(k, sep) ==
    /\ input.kind = "none"
    /\ input' = [kind |-> "repeated", ty |-> "Outer", bytes |-> RepeatedFields(k, sep),
                 k |-> k, elems |-> [i \in 1..k |-> Elem(i)]]
    /\ UNCHANGED <<w, ret, hist, wmsg, rd, fop, lp, overflow_checks>>

\* noproto::read::<ty>(&input), ty the type the peer sent
Parse ==
    /\ input.kind # "none" /\ rd.st = "none"
    /\ LET Returned_(r) == rd' = [ty |-> input.ty, st |-> r.st, val |-> r.val]
       IN Returned_(lib_read(input.ty, input.bytes))
    /\ UNCHANGED <<w, ret, hist, wmsg, input, fop, lp, overflow_checks>>

\* Fields whose header is below 8 with a wire type that is not reserved, so
\* tag 0: Varint payloads of one and two bytes, LengthDelimited payloads of
\* none and one byte
TagZeroFields == { << 0, 1 >>, << 0, 150, 1 >>, << 2, 0 >>, << 2, 1, 65 >> }

\* The messages a field of tag 0 is added to
TagZeroValues(ty) ==
    CASE ty = "Inner" -> InnerValues
      [] ty = "Outer" -> {v \in OuterValues : v.x = U(300, 32) /\ v.choice # << [A |-> U(150, 32)] >>}

\* A message with a field of tag 0 at offset k arrives, base the bytes
\* without it
TagZero(ty, base, x, k) ==
    /\ input.kind = "none"
    /\ input' = [kind |-> "tagzero", ty |-> ty, bytes |-> Insert(base, x, k),
                 base |-> base, at |-> k, field |-> x]
    /\ UNCHANGED <<w, ret, hist, wmsg, rd, fop, lp, overflow_checks>>

\* The values whose encodings arrive one after the other
DupValues(ty) ==
    CASE ty = "Inner" ->
           {InnerOf(U(150, 32), << S(-1, 32) >>), InnerOf(U(0, 32), << >>),
            InnerOf(U(7, 32), << S(5, 32) >>)}
      [] ty = "Deep" ->
           {[o |-> o, s |-> s, pick |-> p] :
               o \in {<< >>, << InnerOf(U(150, 32), << S(-1, 32) >>) >>,
                      << InnerOf(U(0, 32), << >>) >>},
               s \in {[x |-> U(300, 32), choice |-> << [A |-> U(150, 32)] >>,
                       items |-> << U(1, 32) >>,
                       inner |-> << InnerOf(U(7, 32), << S(-1, 32) >>) >>],
                      [x |-> U(5, 32), choice |-> << >>, items |-> << >>, inner |-> << >>],
                      [x |-> U(5, 32), choice |-> << [B |-> InnerOf(U(0, 32), << >>)] >>,
                       items |-> << U(2, 32) >>,
                       inner |-> << InnerOf(U(9, 32), << >>) >>]},
               p \in {[P |-> U(0, 32)], [Q |-> TRUE]}}

\* The encoding of first followed by the encoding of second arrives: every
\* field both have set occurs twice
Twice(ty, first, second) ==
    /\ input.kind = "none"
    /\ input' = [kind |-> "twice", ty |-> ty,
                 bytes |-> Encoding(ty, first) \o Encoding(ty, second),
                 first |-> first, second |-> second]
    /\ UNCHANGED <<w, ret, hist, wmsg, rd, fop, lp, overflow_checks>>

NextParse ==
    \/ \E k \in 0..(ItemsCap + 2) : \E sep \in Separators : Repeats(k, sep)
    \/ \E ty \in {"Inner", "Outer"} : \E val \in TagZeroValues(ty) :
          \E k \in Boundaries(Encoding(ty, val)) : \E x \in TagZeroFields :
              TagZero(ty, Encoding(ty, val), x, k)
    \/ \E ty \in {"Inner", "Deep"} : \E first \in DupValues(ty) : \E second \in DupValues(ty) :
          Twice(ty, first, second)
    \/ Parse

SpecParse == InitParse /\ [][NextParse]_vars

(***************************************************************************)
(* Properties of read(), checked under SpecParse.                          *)
(***************************************************************************)

\* C15 (bounded-container overflow): a buffer with k occurrences of a
\* repeated field, read into a holder of capacity N, gives ReadError and no
\* value when k > N, and Ok with the k elements in wire order when k <= N.
C15_RepeatedCapacity ==
    (input.kind = "repeated" /\ rd.st # "none") =>
        IF input.k > ItemsCap
        THEN rd.st = "err" /\ rd.val = << >>
        ELSE rd.st = "ok" /\ rd.val.items = input.elems

\* One occurrence more than the holder takes was refused, with other
\* fields between the occurrences
C15_Witness ==
    /\ input.kind = "repeated" /\ input.k = ItemsCap + 1 /\ rd.st = "err"
    /\ Len(input.bytes) > 3 * input.k

\* C16 (tag 0 is illegal): when a field header of the buffer carries tag 0,
\* FieldIter yields a failure item for it and read() returns ReadError.
C16_TagZeroRejected ==
    (input.kind = "tagzero" /\ rd.st # "none") =>
        /\ rd.st = "err"
        /\ \E i \in DOMAIN FieldItems(input.bytes) : FieldItems(input.bytes)[i].st = "err"

\* What the code does with tag 0: FieldIter yields the field as any other,
\* no field of the schema has the tag, and read() returns what it returns
\* for the bytes without the field.
C16_TagZeroSkipped ==
    (input.kind = "tagzero" /\ rd.st # "none") =>
        /\ rd.st = "ok" /\ rd.val = lib_read(input.ty, input.base).val
        /\ \E i \in DOMAIN FieldItems(input.bytes) :
              /\ FieldItems(input.bytes)[i].st = "ok"
              /\ FieldItems(input.bytes)[i].fr.tag = U(0, 32)

\* An Option holder after two occurrences of its field: the second when
\* there is one, else the first
Replaced(first, second) == IF second # << >> THEN second ELSE first

\* An Outer read from an occurrence that wrote `first` and then, into the
\* same value, from an occurrence that wrote `second`: x is in both, the
\* optional holders are replaced where the second has them, the repeated
\* holder grows
MergedOuter(first, second) ==
    [x      |-> second.x,
     choice |-> Replaced(first.choice, second.choice),
     items  |-> first.items \o second.items,
     inner  |-> Replaced(first.inner, second.inner)]

\* C20 (duplicate occurrences of one tag): of two occurrences of a Single
\* composite field (Deep.s) the second is read into the value the first
\* left, which keeps the inner fields only the first has set and takes the
\* second's for those both have set; of two occurrences of an Optional
\* composite field (Deep.o, Outer.inner) the second replaces the first, with
\* inner fields only the first has set back at their default; of a scalar
\* field (Inner.a, Inner.b, Outer.x) the last occurrence wins.
C20_DuplicateOccurrences ==
    (input.kind = "twice" /\ rd.st # "none") =>
        /\ rd.st = "ok"
        /\ input.ty = "Deep" =>
              /\ rd.val.s = MergedOuter(input.first.s, input.second.s)
              /\ rd.val.o = Replaced(input.first.o, input.second.o)
        /\ input.ty = "Inner" =>
              /\ rd.val.a = input.second.a
              /\ rd.val.b = Replaced(input.first.b, input.second.b)

\* Two occurrences of Deep.s and of Deep.o were read: s keeps the choice
\* only the first has set, o has lost the b only the first has set
C20_Witness ==
    /\ input.kind = "twice" /\ input.ty = "Deep" /\ rd.st = "ok"
    /\ input.first.s.choice # << >> /\ input.second.s.choice = << >>
    /\ rd.val.s.choice = input.first.s.choice
    /\ rd.val.s.x = input.second.s.x /\ input.first.s.x # input.second.s.x
    /\ input.first.o # << >> /\ input.second.o # << >>
    /\ input.first.o[1].b # << >> /\ rd.val.o[1].b = << >>

(***************************************************************************)
(* SpecIter: a peer puts fields one after the other into a buffer, and     *)
(* r.read_fields() is iterated over it, one next() at a time.              *)
(***************************************************************************)

\* The most fields of one buffer
MaxFields == 3

\* A field as the peer makes it: its bytes, and the tag, wire type and
\* payload they stand for
WireField(bs, tag, wire_type, payload) ==
    [bytes |-> bs, tag |-> tag, wire_type |-> wire_type, payload |-> payload]

\* Varint fields with payloads of one, two and ten bytes, one under a
\* two-byte header (tag 16) and one under a padded header; LengthDelimited
\* fields with no payload, a payload of two bytes, and one of MaxData bytes
\* under a two-byte length
WireFields ==
    { WireField(<< 8, 1 >>, 1, "Varint", << 1 >>),
      WireField(<< 8, 150, 1 >>, 1, "Varint", << 150, 1 >>),
      WireField(<< 72, 255, 255, 255, 255, 255, 255, 255, 255, 255, 1 >>, 9, "Varint",
                << 255, 255, 255, 255, 255, 255, 255, 255, 255, 1 >>),
      WireField(<< 128, 1, 0 >>, 16, "Varint", << 0 >>),
      WireField(<< 136, 0, 5 >>, 1, "Varint", << 5 >>),
      WireField(<< 10, 0 >>, 1, "LengthDelimited", << >>),
      WireField(<< 18, 2, 8, 5 >>, 2, "LengthDelimited", << 8, 5 >>),
      WireField(<< 18, (MaxData % 128) + 128, MaxData \div 128 >> \o Data(MaxData), 2,
                "LengthDelimited", Data(MaxData)) }

InitIter ==
    /\ w = [buf |-> << >>, pos |-> 0]
    /\ ret = "none"
    /\ hist = << >>
    /\ wmsg = [ty |-> "none"]
    /\ input = [kind |-> "fields", bytes |-> << >>, fields |-> << >>]
    /\ rd = [st |-> "none"]
    /\ fop = [name |-> "none"]
    /\ lp = [st |-> "none"]
    /\ overflow_checks \in BOOLEAN

\* The peer adds a field to the buffer
AddField(f) ==
    /\ rd.st = "none" /\ Len(input.fields) < MaxFields
    /\ input' = [kind |-> "fields", bytes |-> input.bytes \o f.bytes,
                 fields |-> Append(input.fields, f)]
    /\ UNCHANGED <<w, ret, hist, wmsg, rd, fop, lp, overflow_checks>>

\* for r in r.read_fields(): one call of FieldIter::next, made while the
\* last call yielded a field
IterNext ==
    /\ IF rd.st = "none" THEN TRUE ELSE rd.items[Len(rd.items)].st = "ok"
    /\ LET Yields(items, it) == rd' = [st |-> "iter", data |-> it.rest, items |-> Append(items, it)]
       IN IF rd.st = "none" THEN Yields(<< >>, FieldIter_next(input.bytes))
          ELSE Yields(rd.items, FieldIter_next(rd.data))
    /\ UNCHANGED <<w, ret, hist, wmsg, input, fop, lp, overflow_checks>>

NextIter ==
    \/ \E f \in WireFields : AddField(f)
    \/ IterNext

SpecIter == InitIter /\ [][NextIter]_vars

(***************************************************************************)
(* Properties of FieldIter, checked under SpecIter.                        *)
(***************************************************************************)

RECURSIVE BytesFrom(_, _)
\* The bytes of the fields fs[i], fs[i+1], ...
BytesFrom(fs, i) == IF i > Len(fs) THEN << >> ELSE fs[i].bytes \o BytesFrom(fs, i + 1)

\* C17 (field iterator exactness): over a buffer of k well-formed fields the
\* iterator yields k field views and then ends; view i has the tag, the wire
\* type and exactly the payload of field i, the reader is left at the start
\* of field i + 1, and the iterator ends when the reader is empty, no
\* sooner.
C17_IterExact ==
    rd.st = "iter" =>
        \A i \in DOMAIN rd.items :
            IF i <= Len(input.fields)
            THEN /\ rd.items[i].st = "ok"
                 /\ rd.items[i].fr.tag = U(input.fields[i].tag, 32)
                 /\ rd.items[i].fr.wire_type = input.fields[i].wire_type
                 /\ rd.items[i].fr.data = input.fields[i].payload
                 /\ rd.items[i].rest = BytesFrom(input.fields, i + 1)
            ELSE /\ rd.items[i].st = "none" /\ i = Len(input.fields) + 1
                 /\ rd.items[i].rest = << >>

\* Fields of both wire types were yielded, and then the iterator ended
C17_Witness ==
    /\ rd.st = "iter" /\ Len(rd.items) = Len(input.fields) + 1 /\ Len(input.fields) >= 2
    /\ rd.items[Len(rd.items)].st = "none"
    /\ rd.items[1].fr.wire_type = "LengthDelimited" /\ Len(rd.items[1].fr.data) = MaxData
    /\ rd.items[2].fr.wire_type = "Varint" /\ Len(rd.items[2].fr.data) = 10

(***************************************************************************)
(* SpecHeader: w.write_field(tag, &msg) into an empty buffer, for tags     *)
(* over the whole of u32 and messages of both wire types, and one          *)
(* FieldIter::next over the bytes written.                                 *)
(***************************************************************************)

\* The length of the buffer: a header of five bytes and a payload of three
HeaderBuf == 8

\* The tags handed to write_field: every 2^k and 2^k - 1 of u32 but 0, and
\* two alternating bit patterns
TagValues == IntValues(32) \ {U(0, 32)}

\* The messages written: u32 (Varint) and Bytes (LengthDelimited)
HeaderMessages ==
    { [ty |-> "u32", msg |-> U(0, 32)], [ty |-> "u32", msg |-> U(300, 32)],
      [ty |-> "Bytes", msg |-> << >>], [ty |-> "Bytes", msg |-> << 7, 9 >>] }

InitHeader ==
    /\ w = [buf |-> NewBuf(HeaderBuf), pos |-> 0]
    /\ ret = "none"
    /\ hist = << >>
    /\ wmsg = [ty |-> "none"]
    /\ input = NoInput
    /\ rd = [st |-> "idle"]
    /\ fop = [name |-> "none"]
    /\ lp = [st |-> "none"]
    /\ overflow_checks \in BOOLEAN

\* w.write_field(tag, &m.msg) has returned, leaving the cursor c
FieldWritten(tag, m, c) ==
    /\ w' = [buf |-> c.buf, pos |-> c.pos]
    /\ ret' = c.st
    /\ hist' = << [op |-> "write_field", tag |-> tag, ty |-> m.ty, msg |-> m.msg,
                   before |-> w, body |-> << >>] >>
    /\ UNCHANGED <<wmsg, input, rd, fop, lp, overflow_checks>>

WriteField(tag, m) ==
    /\ hist = << >>
    /\ FieldWritten(tag, m, write_field(Cursor, tag, m.ty, m.msg))

\* ByteReader::new(w.bytes()).read_fields().next()
ReadField ==
    /\ ret = "ok" /\ rd.st = "idle"
    /\ rd' = FieldIter_next(SubSeq(w.buf, 1, w.pos))
    /\ UNCHANGED <<w, ret, hist, wmsg, input, fop, lp, overflow_checks>>

NextHeader ==
    \/ \E tag \in TagValues, m \in HeaderMessages : WriteField(tag, m)
    \/ ReadField

SpecHeader == InitHeader /\ [][NextHeader]_vars

(***************************************************************************)
(* Properties of the field header, checked under SpecHeader.               *)
(***************************************************************************)

\* t << 3 | w as an integer of 35 bits, nothing shifted out
WideHeader(tag, wire_type) ==
    [i \in 1..35 |-> IF i = 2 THEN (IF wire_type = "LengthDelimited" THEN 1 ELSE 0)
                     ELSE IF i <= 3 THEN 0 ELSE tag[i - 3]]

\* The bytes of the header varint at the front of bs
HeaderBytes(bs) == SubSeq(bs, 1, TermAt(bs))

\* The header write_field wrote is the varint of t << 3 | w, and FieldIter
\* yields t and w from it
HeaderRoundTrip ==
    /\ Canonical(HeaderBytes(SubSeq(w.buf, 1, w.pos)),
                 WideHeader(hist[1].tag, WIRE_TYPE(hist[1].ty)))
    /\ rd.st = "ok"
    /\ rd.fr.tag = hist[1].tag
    /\ rd.fr.wire_type = WIRE_TYPE(hist[1].ty)

\* C18 (field header round trip over the whole tag range): for every tag t
\* with 1 <= t < 2^32 and each wire type w, the header write_field writes is
\* the varint of (t << 3 | w), and FieldIter reading it yields tag t and wire
\* type w.
C18_HeaderRoundTrip == rd.st # "idle" => HeaderRoundTrip

\* What the code does: the round trip holds for the tags below 2^29; of a
\* tag of 2^29 or more the three high bits are shifted out of the u32 with
\* no failure, and FieldIter yields t mod 2^29.
C18_HeaderRoundTripBelow2p29 ==
    rd.st # "idle" =>
        IF \A i \in 30..32 : hist[1].tag[i] = 0
        THEN HeaderRoundTrip
        ELSE /\ ret = "ok" /\ rd.st = "ok"
             /\ rd.fr.tag = ZeroExt(Trunc(hist[1].tag, 29), 32)
             /\ rd.fr.wire_type = WIRE_TYPE(hist[1].ty)

====
